---- MODULE Spec2Model ----
(***************************************************************************)
(* Nano Banana MCP server: the tool router (NanoBananaServer), the         *)
(* generation orchestrator (ImageGenerator) and the file collaborator      *)
(* (FileHandler), modelled as one state machine.                           *)
(*                                                                         *)
(* Strings are sequences of atoms.  Prompts and file names are sequences   *)
(* of single characters; messages are sequences of words, blanks and       *)
(* opaque phrases.  String operations (toLowerCase, includes, trim, slice, *)
(* join) work on atoms.                                                    *)
(***************************************************************************)
EXTENDS Integers, Sequences, FiniteSets, TLC

(***************************************************************************)
(* Bounds of the model.                                                    *)
(***************************************************************************)
\* largest outputCount / steps / sizes argument a caller supplies
MaxCount == 3

(***************************************************************************)
(* String helpers.                                                         *)
(***************************************************************************)
Min(a, b) == IF a < b THEN a ELSE b

\* an optional value: undefined/null, or a value
None == [some |-> FALSE, v |-> <<>>]
Some(x) == [some |-> TRUE, v |-> x]

\* String.prototype.toLowerCase on one atom
LowerAtom(a) ==
  CASE a = "Authentication" -> "authentication"
    [] a = "AUTHENTICATION" -> "authentication"
    [] a = "Failed" -> "failed"
    [] a = "Fetch" -> "fetch"
    [] a = "A" -> "a"
    [] a = "B" -> "b"
    [] OTHER -> a

toLowerCase(s) == [i \in 1..Len(s) |-> LowerAtom(s[i])]

\* String.prototype.includes: sub occurs in s as a contiguous run of atoms
includes(s, sub) ==
  \E i \in 0..(Len(s) - Len(sub)) :
    \A j \in 1..Len(sub) : s[i + j] = sub[j]

IsSpace(a) == a \in {" ", "\n", "\t"}

RECURSIVE TrimStart(_)
TrimStart(s) ==
  IF s # <<>> /\ IsSpace(Head(s)) THEN TrimStart(Tail(s)) ELSE s

RECURSIVE TrimEnd(_)
TrimEnd(s) ==
  IF s # <<>> /\ IsSpace(s[Len(s)]) THEN TrimEnd(SubSeq(s, 1, Len(s) - 1)) ELSE s

\* String.prototype.trim
trim(s) == TrimEnd(TrimStart(s))

\* the cap of detail.slice(0, 500) and bodyText.slice(0, 500), in atoms
SnippetCap == 500

\* String.prototype.slice(0, n)
slice0(s, n) == SubSeq(s, 1, Min(Len(s), n))

\* Array.prototype.join(sep) of a list of strings
RECURSIVE join(_, _)
join(list, sep) ==
  IF list = <<>> THEN <<>>
  ELSE IF Len(list) = 1 THEN list[1]
  ELSE list[1] \o sep \o join(Tail(list), sep)

\* the needle of the fast-fail test, 'authentication failed'
AUTH_FAILED == <<"authentication", " ", "failed">>

(***************************************************************************)
(* Thrown values.                                                          *)
(***************************************************************************)
\* new OpenRouterApiError(message, status, statusText)
OpenRouterApiError(message, status, statusText) ==
  [cls |-> "OpenRouterApiError", status |-> status, statusText |-> statusText,
   message |-> message]

\* any other Error (TypeError of fetch, a file-system error, ...)
PlainError(cls, message) ==
  [cls |-> cls, status |-> 0, statusText |-> <<>>, message |-> message]

NoError == PlainError("none", <<>>)

(***************************************************************************)
(* JSON values of a provider body.  A member value is absent, a string or  *)
(* a value that is no string (an object or a number).                      *)
(***************************************************************************)
JAbsent == [t |-> "absent", v |-> <<>>]
JStr(s) == [t |-> "str", v |-> s]
JObj == [t |-> "obj", v |-> <<>>]

\* JavaScript truthiness of a member value
Truthy(j) == (j.t = "str" /\ j.v # <<>>) \/ j.t = "obj"

\* a || b
OrElse(a, b) == IF Truthy(a) THEN a ELSE b

(***************************************************************************)
(* Payload strings (candidate image data) are run-length encoded: a string *)
(* is a sequence of runs [a |-> atom, n |-> repetitions], n >= 1.          *)
(***************************************************************************)
Run(a, n) == [a |-> a, n |-> n]

\* number of characters of one atom
AtomLen(a) ==
  CASE a = "data:image" -> 10
    [] a = "/png;base64" -> 11
    [] a = "http" -> 4
    [] OTHER -> 1

RECURSIVE StrLen(_)
StrLen(s) == IF s = <<>> THEN 0 ELSE Head(s).n * AtomLen(Head(s).a) + StrLen(Tail(s))

\* the character class [A-Za-z0-9+/], on the atoms payloads are made of
\* (the four letters of "http" are in the class)
IsB64Atom(a) == a \in {"A", "z", "0", "9", "+", "/", "http"}

\* value.startsWith(prefix), prefix one atom
startsWith(s, prefix) == s # <<>> /\ Head(s).a = prefix

\* value.indexOf(','): the index of the first run holding a comma, 0 when none
RECURSIVE indexOfComma(_, _)
indexOfComma(s, i) ==
  IF i > Len(s) THEN 0
  ELSE IF s[i].a = "," THEN i
  ELSE indexOfComma(s, i + 1)

\* value.slice(commaIndex + 1), the comma being the first character of run i
sliceAfterComma(s, i) ==
  IF s[i].n > 1 THEN <<Run(",", s[i].n - 1)>> \o SubSeq(s, i + 1, Len(s))
  ELSE SubSeq(s, i + 1, Len(s))

\* number of characters of the trailing '=' run(s) and index of the last run before them
RECURSIVE PadStart(_, _)
PadStart(s, i) == IF i >= 1 /\ s[i].a = "=" THEN PadStart(s, i - 1) ELSE i

RECURSIVE RunChars(_, _, _)
RunChars(s, from, to) ==
  IF from > to THEN 0 ELSE s[from].n + RunChars(s, from + 1, to)

\* /^[A-Za-z0-9+/]*={0,2}$/.test(data)
base64RegexTest(s) ==
  LET k == PadStart(s, Len(s))
      pad == RunChars(s, k + 1, Len(s))
      ok == \A i \in 1..k : IsB64Atom(s[i].a)
      \* '=' characters the class prefix leaves to ={0,2}: a 3rd '=' fails the match
  IN ok /\ pad <= 2

\* the early-reject length of isValidBase64ImageData
MinDataLen == 100
\* the floor under which syntactically valid base64 is treated as noise
MinImageLen == 1000

\* isValidBase64ImageData without the floor for short data
isValidBase64NoFloor(data) ==
  IF data = <<>> \/ StrLen(data) < MinDataLen THEN FALSE
  ELSE IF ~base64RegexTest(data) THEN FALSE
  ELSE TRUE

\* ImageGenerator.isValidBase64ImageData
isValidBase64ImageData(data) ==
  IF data = <<>> \/ StrLen(data) < MinDataLen THEN FALSE
  ELSE IF ~base64RegexTest(data) THEN FALSE
  ELSE IF StrLen(data) < MinImageLen THEN FALSE
  ELSE TRUE

\* tryDecode of parseImageFromResponse: value is an optional string
tryDecode(value) ==
  IF ~value.some \/ value.v = <<>> THEN None
  ELSE LET commaIndex == indexOfComma(value.v, 1)
       IN IF startsWith(value.v, "data:image") /\ commaIndex # 0
          THEN LET base64 == sliceAfterComma(value.v, commaIndex)
               IN IF isValidBase64ImageData(base64) THEN Some(base64) ELSE None
          ELSE IF isValidBase64ImageData(value.v) THEN value ELSE None

\* a || b on two tryDecode results
OrDecode(a, b) == IF a.some THEN a ELSE b

\* one content entry, result tried before image_base64
DecodePartResultFirst(part) ==
  OrDecode(tryDecode(part.result),
    OrDecode(tryDecode(part.image_base64),
      OrDecode(tryDecode(part.data), tryDecode(part.text))))

\* one content entry: image_base64, then result, then data, then text
DecodePart(part) ==
  OrDecode(tryDecode(part.image_base64),
    OrDecode(tryDecode(part.result),
      OrDecode(tryDecode(part.data), tryDecode(part.text))))

\* the for loop over item.content: the first entry that decodes
RECURSIVE ScanContent(_)
ScanContent(content) ==
  IF content = <<>> THEN None
  ELSE LET d == DecodePart(Head(content))
       IN IF d.some THEN d ELSE ScanContent(Tail(content))

\* the body of the loop, the nested content scan tried before item.result
DecodeItemContentFirst(item) ==
  LET direct == IF item.type = "image_generation_call"
                THEN OrDecode(ScanContent(item.content), tryDecode(item.result))
                ELSE None
  IN OrDecode(direct, ScanContent(item.content))

\* the body of the loop over response.output, for one item
DecodeItem(item) ==
  LET direct == IF item.type = "image_generation_call"
                THEN OrDecode(tryDecode(item.result), ScanContent(item.content))
                ELSE None
  IN OrDecode(direct, ScanContent(item.content))

RECURSIVE ScanOutput(_)
ScanOutput(output) ==
  IF output = <<>> THEN None
  ELSE LET d == DecodeItem(Head(output))
       IN IF d.some THEN d ELSE ScanOutput(Tail(output))

\* the loop over response.data looking at b64_json and base64 only
RECURSIVE ScanDataWithoutUrl(_)
ScanDataWithoutUrl(data) ==
  IF data = <<>> THEN None
  ELSE LET part == Head(data)
           encoded == IF part.b64_json.some /\ part.b64_json.v # <<>> THEN part.b64_json
                      ELSE IF part.base64.some /\ part.base64.v # <<>> THEN part.base64
                      ELSE None
       IN IF ~encoded.some THEN ScanDataWithoutUrl(Tail(data))
          ELSE IF startsWith(encoded.v, "http") THEN ScanDataWithoutUrl(Tail(data))
          ELSE LET legacy == tryDecode(encoded)
               IN IF legacy.some THEN legacy ELSE ScanDataWithoutUrl(Tail(data))

\* the loop over the legacy response.data array
RECURSIVE ScanData(_)
ScanData(data) ==
  IF data = <<>> THEN None
  ELSE LET part == Head(data)
           encoded == IF part.b64_json.some /\ part.b64_json.v # <<>> THEN part.b64_json
                      ELSE IF part.base64.some /\ part.base64.v # <<>> THEN part.base64
                      ELSE IF part.url.some /\ part.url.v # <<>> THEN part.url
                      ELSE None
       IN IF ~encoded.some THEN ScanData(Tail(data))
          ELSE IF startsWith(encoded.v, "http") THEN ScanData(Tail(data))
          ELSE LET legacy == tryDecode(encoded)
               IN IF legacy.some THEN legacy ELSE ScanData(Tail(data))

\* ImageGenerator.parseImageFromResponse; response is the parsed JSON body
parseImageFromResponse(response) ==
  IF response.isNull THEN None
  ELSE OrDecode(ScanOutput(response.output), ScanData(response.data))

(***************************************************************************)
(* Provider client: an HTTP response is [status, statusText, body]; a body *)
(* is its text and, when the text is JSON, the parsed value.               *)
(***************************************************************************)
\* the result of a call that returns or throws
Ok(v) == [threw |-> FALSE, error |-> NoError, value |-> v]
Threw(e) == [threw |-> TRUE, error |-> e, value |-> <<>>]

\* Response.ok
ResponseOk(response) == response.status >= 200 /\ response.status <= 299

\* ImageGenerator.formatErrorMessage: the message text, or the TypeError of
\* detail.slice when the detail is no string
formatErrorMessage(response) ==
  LET body == response.body
      detail == IF body.json
                THEN IF body.value.isNull THEN JAbsent
                     ELSE OrElse(body.value.errorMessage, body.value.message)
                ELSE JStr(trim(body.text))
      prefix == <<"OpenRouter request failed with status ", ToString(response.status)>>
                \o (IF response.statusText # <<>> THEN <<" ">> \o response.statusText
                    ELSE <<>>)
  IN IF ~Truthy(detail) THEN Ok(prefix)
     ELSE IF detail.t # "str"
          THEN Threw(PlainError("TypeError", <<"detail.slice is not a function">>))
          ELSE Ok(prefix \o <<":", " ">> \o slice0(detail.v, SnippetCap))

\* ImageGenerator.handleResponse
handleResponse(response) ==
  IF ~ResponseOk(response)
  THEN LET m == formatErrorMessage(response)
       IN IF m.threw THEN m
          ELSE Threw(OpenRouterApiError(m.value, response.status, response.statusText))
  ELSE IF response.body.json THEN Ok(response.body.value)
  ELSE Threw(OpenRouterApiError(
         <<"OpenRouter returned non-JSON response (status ", ToString(response.status),
           "). Body snippet: ">> \o slice0(response.body.text, SnippetCap),
         response.status, response.statusText))

\* ImageGenerator.postJson: fetch rejects (transport failure) or answers
postJson(outcome) ==
  IF outcome.rejected THEN Threw(outcome.error) ELSE handleResponse(outcome.response)

(***************************************************************************)
(* Error classifier.                                                       *)
(***************************************************************************)
MSG_401 ==
  <<"Authentication", " ", "failed", ":", " ",
    "The provided model API key is invalid. Please check your MODEL_API_KEY value.">>
MSG_403 ==
  <<"Authentication", " ", "failed", ":", " ",
    "Access to the requested OpenRouter resource is forbidden. Ensure your API key has access to the google/gemini-2.5-flash-image model.">>
MSG_429 ==
  <<"OpenRouter rate limit reached. Please wait a moment before retrying or review your plan limits.">>
MSG_5XX ==
  <<"OpenRouter encountered an internal error while processing the request. Please try again later.">>
MSG_NETWORK ==
  <<"Network error communicating with OpenRouter. Please check your internet connection and try again.">>
MSG_REJECTED == <<"The request was rejected by OpenRouter: ">>
MSG_UNEXPECTED == <<"An unexpected error occurred: ">>

\* handleApiError testing the text for 'fetch failed' before the class
handleApiErrorNetworkFirst(error) ==
  IF includes(toLowerCase(error.message), <<"fetch", " ", "failed">>) THEN MSG_NETWORK
  ELSE IF error.cls = "OpenRouterApiError"
  THEN IF error.status = 401 THEN MSG_401
       ELSE IF error.status = 403 THEN MSG_403
       ELSE IF error.status = 429 THEN MSG_429
       ELSE IF error.status = 400 THEN MSG_REJECTED \o error.message
       ELSE IF error.status # 0 /\ error.status >= 500 THEN MSG_5XX
       ELSE error.message
  ELSE MSG_UNEXPECTED \o error.message

\* ImageGenerator.handleApiError
handleApiError(error) ==
  IF error.cls = "OpenRouterApiError"
  THEN IF error.status = 401 THEN MSG_401
       ELSE IF error.status = 403 THEN MSG_403
       ELSE IF error.status = 429 THEN MSG_429
       ELSE IF error.status = 400 THEN MSG_REJECTED \o error.message
       ELSE IF error.status # 0 /\ error.status >= 500 THEN MSG_5XX
       ELSE error.message
  ELSE IF includes(toLowerCase(error.message), <<"fetch", " ", "failed">>)
       THEN MSG_NETWORK
       ELSE MSG_UNEXPECTED \o error.message

\* errorMessage.toLowerCase().includes('authentication failed')
IsAuthenticationFailure(errorMessage) == includes(toLowerCase(errorMessage), AUTH_FAILED)

(***************************************************************************)
(* Prompt compiler.  Prompts are sequences of single characters; a style   *)
(* or variation tag is one string, spelled out by TagChars when it is      *)
(* interpolated into a prompt.                                             *)
(***************************************************************************)
COMMA_SP == <<",", " ">>

\* the characters of a style tag or of an unknown variation tag
TagChars(tag) ==
  CASE tag = "watercolor" -> <<"w", "a", "t", "e", "r", "c", "o", "l", "o", "r">>
    [] tag = "sketch" -> <<"s", "k", "e", "t", "c", "h">>
    [] tag = "anime" -> <<"a", "n", "i", "m", "e">>
    [] tag = "sequence-step" -> <<"s", "e", "q", "u", "e", "n", "c", "e", "-", "s", "t", "e", "p">>
    [] tag = "glow" -> <<"g", "l", "o", "w">>
    [] OTHER -> <<tag>>

\* the switch of buildBatchPrompts: the prompts one variation adds for baseP
ExpandVariation(baseP, variation) ==
    CASE variation = "lighting" ->
        <<baseP \o COMMA_SP \o <<"d", "r", "a", "m", "a", "t", "i", "c", " ", "l", "i", "g", "h", "t", "i", "n", "g">>,
          baseP \o COMMA_SP \o <<"s", "o", "f", "t", " ", "l", "i", "g", "h", "t", "i", "n", "g">>>>
      [] variation = "angle" ->
        <<baseP \o COMMA_SP \o <<"f", "r", "o", "m", " ", "a", "b", "o", "v", "e">>,
          baseP \o COMMA_SP \o <<"c", "l", "o", "s", "e", "-", "u", "p", " ", "v", "i", "e", "w">>>>
      [] variation = "color-palette" ->
        <<baseP \o COMMA_SP \o <<"w", "a", "r", "m", " ", "c", "o", "l", "o", "r", " ", "p", "a", "l", "e", "t", "t", "e">>,
          baseP \o COMMA_SP \o <<"c", "o", "o", "l", " ", "c", "o", "l", "o", "r", " ", "p", "a", "l", "e", "t", "t", "e">>>>
      [] variation = "composition" ->
        <<baseP \o COMMA_SP \o <<"c", "e", "n", "t", "e", "r", "e", "d", " ", "c", "o", "m", "p", "o", "s", "i", "t", "i", "o", "n">>,
          baseP \o COMMA_SP \o <<"r", "u", "l", "e", " ", "o", "f", " ", "t", "h", "i", "r", "d", "s", " ", "c", "o", "m", "p", "o", "s", "i", "t", "i", "o", "n">>>>
      [] variation = "mood" ->
        <<baseP \o COMMA_SP \o <<"c", "h", "e", "e", "r", "f", "u", "l", " ", "m", "o", "o", "d">>,
          baseP \o COMMA_SP \o <<"d", "r", "a", "m", "a", "t", "i", "c", " ", "m", "o", "o", "d">>>>
      [] variation = "season" ->
        <<baseP \o COMMA_SP \o <<"i", "n", " ", "s", "p", "r", "i", "n", "g">>,
          baseP \o COMMA_SP \o <<"i", "n", " ", "w", "i", "n", "t", "e", "r">>>>
      [] variation = "time-of-day" ->
        <<baseP \o COMMA_SP \o <<"a", "t", " ", "s", "u", "n", "r", "i", "s", "e">>,
          baseP \o COMMA_SP \o <<"a", "t", " ", "s", "u", "n", "s", "e", "t">>>>
      [] OTHER -> <<baseP \o COMMA_SP \o TagChars(variation)>>

\* the inner loop over request.variations, for one base prompt
RECURSIVE ExpandVariations(_, _)
ExpandVariations(baseP, variations) ==
  IF variations = <<>> THEN <<>>
  ELSE ExpandVariation(baseP, Head(variations)) \o ExpandVariations(baseP, Tail(variations))

\* the outer loop, pushing the unexpanded prompt along with its variations
RECURSIVE ExpandAllKeepingBase(_, _)
ExpandAllKeepingBase(basePrompts, variations) ==
  IF basePrompts = <<>> THEN <<>>
  ELSE <<Head(basePrompts)>> \o ExpandVariations(Head(basePrompts), variations)
       \o ExpandAllKeepingBase(Tail(basePrompts), variations)

\* the outer loop over basePrompts
RECURSIVE ExpandAll(_, _)
ExpandAll(basePrompts, variations) ==
  IF basePrompts = <<>> THEN <<>>
  ELSE ExpandVariations(Head(basePrompts), variations) \o ExpandAll(Tail(basePrompts), variations)

\* the loop that repeats basePrompt outputCount times
Repeat(x, n) == [k \in 1..n |-> x]

\* buildBatchPrompts without the splice that caps the list at outputCount
buildBatchPromptsUncapped(request) ==
  LET basePrompt == request.prompt
      styles == request.styles
      variations == request.variations
      outputCount == request.outputCount
      styled == IF styles.some /\ Len(styles.v) > 0
                THEN [k \in 1..Len(styles.v) |->
                        basePrompt \o COMMA_SP \o TagChars(styles.v[k])
                        \o <<" ", "s", "t", "y", "l", "e">>]
                ELSE <<>>
      varied == IF variations.some /\ Len(variations.v) > 0
                THEN LET basePrompts == IF Len(styled) > 0 THEN styled ELSE <<basePrompt>>
                         variationPrompts == ExpandAll(basePrompts, variations.v)
                     IN IF Len(variationPrompts) > 0 THEN variationPrompts ELSE styled
                ELSE styled
      batch == IF Len(varied) = 0 /\ outputCount # 0 /\ outputCount > 1
               THEN Repeat(basePrompt, outputCount)
               ELSE varied
      cut == batch
  IN IF ~styles.some /\ ~variations.some /\ outputCount = 0 THEN <<basePrompt>>
     ELSE IF Len(cut) > 0 THEN cut ELSE <<basePrompt>>

\* buildBatchPrompts returning prompts as they are, without the final fallback
buildBatchPromptsNoFallback(request) ==
  LET basePrompt == request.prompt
      styles == request.styles
      variations == request.variations
      outputCount == request.outputCount
      styled == IF styles.some /\ Len(styles.v) > 0
                THEN [k \in 1..Len(styles.v) |->
                        basePrompt \o COMMA_SP \o TagChars(styles.v[k])
                        \o <<" ", "s", "t", "y", "l", "e">>]
                ELSE <<>>
      varied == IF variations.some /\ Len(variations.v) > 0
                THEN LET basePrompts == IF Len(styled) > 0 THEN styled ELSE <<basePrompt>>
                         variationPrompts == ExpandAll(basePrompts, variations.v)
                     IN IF Len(variationPrompts) > 0 THEN variationPrompts ELSE styled
                ELSE styled
      batch == IF Len(varied) = 0 /\ outputCount # 0 /\ outputCount > 1
               THEN Repeat(basePrompt, outputCount)
               ELSE varied
      \* prompts.splice(outputCount): a negative count cuts from the end
      cut == IF outputCount # 0 /\ Len(batch) > outputCount
             THEN IF outputCount > 0 THEN SubSeq(batch, 1, outputCount)
                  ELSE SubSeq(batch, 1, IF Len(batch) + outputCount > 0
                                        THEN Len(batch) + outputCount ELSE 0)
             ELSE batch
  IN IF ~styles.some /\ ~variations.some /\ outputCount = 0 THEN <<basePrompt>>
     ELSE cut

\* ImageGenerator.buildBatchPrompts.  outputCount 0 stands for an absent (or
\* zero) count: the code only tests its truthiness and compares it.
buildBatchPrompts(request) ==
  LET basePrompt == request.prompt
      styles == request.styles
      variations == request.variations
      outputCount == request.outputCount
      styled == IF styles.some /\ Len(styles.v) > 0
                THEN [k \in 1..Len(styles.v) |->
                        basePrompt \o COMMA_SP \o TagChars(styles.v[k])
                        \o <<" ", "s", "t", "y", "l", "e">>]
                ELSE <<>>
      varied == IF variations.some /\ Len(variations.v) > 0
                THEN LET basePrompts == IF Len(styled) > 0 THEN styled ELSE <<basePrompt>>
                         variationPrompts == ExpandAll(basePrompts, variations.v)
                     IN IF Len(variationPrompts) > 0 THEN variationPrompts ELSE styled
                ELSE styled
      batch == IF Len(varied) = 0 /\ outputCount # 0 /\ outputCount > 1
               THEN Repeat(basePrompt, outputCount)
               ELSE varied
      \* prompts.splice(outputCount): a negative count cuts from the end
      cut == IF outputCount # 0 /\ Len(batch) > outputCount
             THEN IF outputCount > 0 THEN SubSeq(batch, 1, outputCount)
                  ELSE SubSeq(batch, 1, IF Len(batch) + outputCount > 0
                                        THEN Len(batch) + outputCount ELSE 0)
             ELSE batch
  IN IF ~styles.some /\ ~variations.some /\ outputCount = 0 THEN <<basePrompt>>
     ELSE IF Len(cut) > 0 THEN cut ELSE <<basePrompt>>

\* ImageGenerator.resolveFileFormat
DEFAULT_FORMAT == "png"
resolveFileFormat(request) ==
  IF request.fileFormat # "" THEN request.fileFormat ELSE DEFAULT_FORMAT

(***************************************************************************)
(* FileHandler.  A file name is a sequence of characters; the output       *)
(* directory is the set of the names of the files in it.                   *)
(***************************************************************************)
\* FileHandler.SEARCH_PATHS, in order
OUTPUT_DIR == "cwd/nanobanana-output"
SEARCH_PATHS == <<"cwd", "cwd/images", "cwd/input", OUTPUT_DIR,
                  "home/Downloads", "home/Desktop">>

\* fs.existsSync(path.join(dir, name)); outFiles is the output directory,
\* inputFiles the files of the other directories as <<dir, name>>
ExistsIn(dir, name, outFiles, inputFiles) ==
  IF dir = OUTPUT_DIR THEN name \in outFiles
  ELSE <<dir, name>> \in inputFiles

\* the loop of findInputFile over the search paths, from index k
RECURSIVE SearchFrom(_, _, _, _)
SearchFrom(k, name, outFiles, inputFiles) ==
  IF k > Len(SEARCH_PATHS) THEN 0
  ELSE IF ExistsIn(SEARCH_PATHS[k], name, outFiles, inputFiles) THEN k
  ELSE SearchFrom(k + 1, name, outFiles, inputFiles)

\* findInputFile without the existsSync test of the loop: the first search
\* path is taken as the place of the file
findInputFileUnchecked(file, outFiles, inputFiles) ==
  IF file.absolute /\ <<"/", file.name>> \in inputFiles
  THEN [found |-> TRUE, filePath |-> <<"/", file.name>>, searchedPaths |-> <<>>]
  ELSE [found |-> TRUE, filePath |-> <<SEARCH_PATHS[1], file.name>>,
        searchedPaths |-> SEARCH_PATHS]

\* FileHandler.findInputFile; file is [absolute, name]: an absolute path
\* joined to a search path names no file of the model
findInputFile(file, outFiles, inputFiles) ==
  IF file.absolute /\ <<"/", file.name>> \in inputFiles
  THEN [found |-> TRUE, filePath |-> <<"/", file.name>>, searchedPaths |-> <<>>]
  ELSE LET k == IF file.absolute THEN 0
                ELSE SearchFrom(1, file.name, outFiles, inputFiles)
       IN IF k # 0
          THEN [found |-> TRUE, filePath |-> <<SEARCH_PATHS[k], file.name>>,
                searchedPaths |-> SEARCH_PATHS]
          ELSE [found |-> FALSE, filePath |-> <<>>, searchedPaths |-> SEARCH_PATHS]

\* the characters [a-z0-9]
LowerAlnum ==
  {"a", "b", "c", "d", "e", "f", "g", "h", "i", "j", "k", "l", "m", "n", "o", "p",
   "q", "r", "s", "t", "u", "v", "w", "x", "y", "z",
   "0", "1", "2", "3", "4", "5", "6", "7", "8", "9"}

\* .replace(/[^a-z0-9\s]/g, "")
StripSpecial(s) == SelectSeq(s, LAMBDA c : c \in LowerAlnum \/ IsSpace(c))

\* .replace(/\s/g, "_"): every blank becomes an underscore of its own
UnderscoreEachSpace(s) == [k \in 1..Len(s) |-> IF IsSpace(s[k]) THEN "_" ELSE s[k]]

\* .replace(/\s+/g, "_"): the first blank of a run becomes "_", the rest go
CollapseSpaces(s) ==
  LET marked == [k \in 1..Len(s) |->
                   IF ~IsSpace(s[k]) THEN s[k]
                   ELSE IF k = 1 \/ ~IsSpace(s[k - 1]) THEN "_"
                   ELSE "(dropped)"]
  IN SelectSeq(marked, LAMBDA c : c # "(dropped)")

\* the length cap of the base name
MaxBaseName == 32

\* the base name generateFilename derives from the prompt
BaseName(prompt) ==
  LET cut == slice0(CollapseSpaces(StripSpecial(toLowerCase(prompt))), MaxBaseName)
  IN IF cut = <<>> THEN <<"g", "e", "n", "e", "r", "a", "t", "e", "d", "_", "i", "m", "a", "g", "e">> ELSE cut

\* the decimal digits of a counter, as characters
RECURSIVE Digits(_)
Digits(n) ==
  IF n < 0 THEN <<"-">> \o Digits(0 - n)
  ELSE IF n < 10 THEN <<ToString(n)>>
  ELSE Digits(n \div 10) \o <<ToString(n % 10)>>

Extension(format) == IF format = "jpeg" THEN <<"j", "p", "g">> ELSE <<"p", "n", "g">>

\* the while loop of generateFilename from `${baseName}_${counter}`
RECURSIVE NextFree(_, _, _, _)
NextFree(baseName, extension, counter, outFiles) ==
  LET fileName == baseName \o <<"_">> \o Digits(counter) \o <<".">> \o extension
  IN IF fileName \in outFiles THEN NextFree(baseName, extension, counter + 1, outFiles)
     ELSE fileName

\* generateFilename with an `if` in place of the `while`: the counter name
\* is taken without looking whether it exists
generateFilenameOneTry(prompt, format, index, outFiles) ==
  LET baseName == BaseName(prompt)
      extension == Extension(format)
      fileName == baseName \o <<".">> \o extension
      counter == IF index > 0 THEN index ELSE 1
  IN IF fileName \in outFiles
     THEN baseName \o <<"_">> \o Digits(counter) \o <<".">> \o extension
     ELSE fileName

\* FileHandler.generateFilename
generateFilename(prompt, format, index, outFiles) ==
  LET baseName == BaseName(prompt)
      extension == Extension(format)
      fileName == baseName \o <<".">> \o extension
      counter == IF index > 0 THEN index ELSE 1
  IN IF fileName \in outFiles THEN NextFree(baseName, extension, counter, outFiles)
     ELSE fileName

(***************************************************************************)
(* Provider outcomes of the model: what one fetch can end in.              *)
(***************************************************************************)
Json(errorMessage, message, output, data) ==
  [isNull |-> FALSE, errorMessage |-> errorMessage, message |-> message,
   output |-> output, data |-> data]
JsonNull ==
  [isNull |-> TRUE, errorMessage |-> JAbsent, message |-> JAbsent,
   output |-> <<>>, data |-> <<>>]

Item(type, result, content) == [type |-> type, result |-> result, content |-> content]
Part(image_base64, result, data, text) ==
  [image_base64 |-> image_base64, result |-> result, data |-> data, text |-> text]
Entry(b64_json, base64, url) == [b64_json |-> b64_json, base64 |-> base64, url |-> url]

JsonBody(value) == [json |-> TRUE, text |-> <<>>, value |-> value]
TextBody(text) == [json |-> FALSE, text |-> text, value |-> JsonNull]

Answer(status, statusText, body) ==
  [rejected |-> FALSE, error |-> NoError,
   response |-> [status |-> status, statusText |-> statusText, body |-> body]]
Rejected(error) ==
  [rejected |-> TRUE, error |-> error,
   response |-> [status |-> 0, statusText |-> <<>>, body |-> TextBody(<<>>)]]

\* payload strings
IMG == <<Run("/", 1024)>>
IMG_PADDED == <<Run("A", 998), Run("=", 2)>>
SHORT_DATA == <<Run("A", 500)>>
DATA_URL == <<Run("data:image", 1), Run("/png;base64", 1), Run(",", 1), Run("z", 1000)>>
HTTP_URL == <<Run("http", 1), Run(":", 1), Run("/", 2), Run("z", 40)>>

\* texts a provider puts in an error body
DETAIL_PLAIN == <<"bad", " ", "prompt">>
DETAIL_AUTH == <<"Authentication", " ", "failed", " ", "upstream">>

BODY_PLAIN == JsonBody(Json(JStr(DETAIL_PLAIN), JAbsent, <<>>, <<>>))
BODY_AUTH_TEXT == JsonBody(Json(JAbsent, JStr(DETAIL_AUTH), <<>>, <<>>))
BODY_NO_STRING == JsonBody(Json(JObj, JAbsent, <<>>, <<>>))
BODY_NO_DETAIL == JsonBody(Json(JAbsent, JAbsent, <<>>, <<>>))

ErrorOutcomes ==
  {Rejected(PlainError("TypeError", <<"fetch", " ", "failed">>)),
   Rejected(PlainError("Error", <<"socket", " ", "hang", " ", "up">>)),
   Answer(401, <<"Unauthorized">>, BODY_PLAIN),
   Answer(401, <<"Unauthorized">>, BODY_NO_STRING),
   Answer(403, <<>>, BODY_NO_DETAIL),
   Answer(400, <<"Bad Request">>, BODY_PLAIN),
   Answer(400, <<"Bad Request">>, BODY_AUTH_TEXT),
   Answer(404, <<"Not Found">>, TextBody(<<" ", "gateway", " ", "down", "\n">>)),
   Answer(404, <<>>, JsonBody(JsonNull)),
   Answer(429, <<>>, BODY_PLAIN),
   Answer(500, <<>>, TextBody(<<>>))}

ImageBodies ==
  {JsonBody(Json(JAbsent, JAbsent,
     <<Item("image_generation_call", Some(IMG), <<>>)>>, <<>>)),
   JsonBody(Json(JAbsent, JAbsent,
     <<Item("message", None, <<Part(None, None, Some(SHORT_DATA), Some(DATA_URL))>>)>>,
     <<>>)),
   JsonBody(Json(JAbsent, JAbsent, <<>>,
     <<Entry(None, None, Some(HTTP_URL)), Entry(Some(IMG_PADDED), None, None)>>))}

NoImageBodies ==
  {BODY_NO_DETAIL,
   JsonBody(Json(JAbsent, JAbsent,
     <<Item("image_generation_call", Some(SHORT_DATA), <<>>)>>,
     <<Entry(None, None, Some(HTTP_URL))>>)),
   JsonBody(JsonNull),
   TextBody(<<"<html>", " ", "Authentication", " ", "Failed">>),
   TextBody(<<"<html>">>)}

ProviderOutcomes ==
  ErrorOutcomes \cup {Answer(200, <<"OK">>, b) : b \in ImageBodies \cup NoImageBodies}

\* file-system failures
FS_MKDIR_ERROR == PlainError("Error", <<"EACCES: permission denied, mkdir">>)
FS_WRITE_ERROR == PlainError("Error", <<"ENOSPC: no space left on device, write">>)
FS_READ_ERROR == PlainError("Error", <<"EACCES: permission denied, open">>)

(***************************************************************************)
(* Orchestrator results (ImageGenerationResponse).                         *)
(***************************************************************************)
NoResult ==
  [returned |-> FALSE, success |-> FALSE, message |-> <<>>,
   generatedFiles |-> None, error |-> None]
Failure(message, error) ==
  [returned |-> TRUE, success |-> FALSE, message |-> message,
   generatedFiles |-> None, error |-> Some(error)]
Success(message, files) ==
  [returned |-> TRUE, success |-> TRUE, message |-> message,
   generatedFiles |-> Some(files), error |-> None]

\* !firstError: null or the empty string
Falsy(opt) == ~opt.some \/ opt.v = <<>>

MSG_NO_IMAGE == <<"No image data returned from OpenRouter. Try adjusting your prompt.">>

\* every error replaces the recorded one
RecordLastError(firstError, errorMessage) == Some(errorMessage)

\* if (!firstError) firstError = errorMessage
RecordFirstError(firstError, errorMessage) ==
  IF Falsy(firstError) THEN Some(errorMessage) ELSE firstError

\* the fast-fail return of the per-item catch
AuthFailResult(op, errorMessage, firstError) ==
  Failure(IF op = "story" THEN <<"Story generation failed">>
          ELSE <<"Image generation failed">>, errorMessage)

\* the outcome that fails as soon as any item recorded an error
GenerateOutcomeFailsOnError(generatedFiles, firstError) ==
  IF Len(generatedFiles) = 0 \/ ~Falsy(firstError)
  THEN Failure(<<"Failed to generate any images">>,
               IF Falsy(firstError) THEN MSG_NO_IMAGE ELSE firstError.v)
  ELSE Success(<<"Successfully generated ", ToString(Len(generatedFiles)),
                 " image variation(s)">>, generatedFiles)

\* the outcome without the test for zero files
GenerateOutcomeNoEmptyCheck(generatedFiles, firstError) ==
  Success(<<"Successfully generated ", ToString(Len(generatedFiles)),
            " image variation(s)">>, generatedFiles)

\* generateTextToImage after the loop: the result the invocation is heading to
GenerateOutcome(generatedFiles, firstError) ==
  IF Len(generatedFiles) = 0
  THEN Failure(<<"Failed to generate any images">>,
               IF Falsy(firstError) THEN MSG_NO_IMAGE ELSE firstError.v)
  ELSE Success(<<"Successfully generated ", ToString(Len(generatedFiles)),
                 " image variation(s)">>, generatedFiles)

\* the default of request.outputCount || 4 and args?.steps || 4
DEFAULT_STEPS == 4

\* generateStorySequence after the loop
StoryOutcome(generatedFiles, firstError, steps, type) ==
  IF Len(generatedFiles) = 0
  THEN Failure(<<"Failed to generate any story sequence images">>,
               IF Falsy(firstError) THEN MSG_NO_IMAGE ELSE firstError.v)
  ELSE Success(
         IF Len(generatedFiles) = steps
         THEN <<"Successfully generated complete ", ToString(steps), "-step ", type,
                " sequence">>
         ELSE <<"Generated ", ToString(Len(generatedFiles)), " out of ", ToString(steps),
                " requested ", type, " steps (", ToString(steps - Len(generatedFiles)),
                " steps failed)">>,
         generatedFiles)

\* an outer catch that throws the error again: the operation rejects
OuterCatchRethrows(op, mode, error) == NoResult

\* the outer catch of the three operations
OuterCatch(op, mode, error) ==
  Failure(CASE op = "generate" -> <<"Failed to generate image">>
            [] op = "story" -> <<"Failed to generate ", mode, " sequence">>
            [] OTHER -> <<"Failed to ", mode, " image">>,
          handleApiError(error))

\* editImage: the early returns before any I/O
EditMissingParameter ==
  Failure(<<"Input image file is required for editing">>, <<"Missing inputImage parameter">>)
EditNotFound(file, fileResult) ==
  Failure(<<"Input image not found: ">> \o file.name,
          <<"Searched in: ">> \o join([k \in 1..Len(fileResult.searchedPaths) |->
                                        <<fileResult.searchedPaths[k]>>], <<", ">>))
EditNoImage(mode) ==
  Failure(<<"Failed to ", mode, " image">>, <<"No image data returned in OpenRouter response">>)
EditSuccess(mode, fullPath) ==
  Success(<<"Successfully ", mode, "d image">>, <<fullPath>>)

\* ImageGenerator.shouldAutoPreview
shouldAutoPreview(request) ==
  IF request.noPreview THEN FALSE
  ELSE IF request.preview THEN TRUE
  ELSE FALSE

\* openImagePreview without its catch: a failed viewer command rejects
openImagePreviewUncaught(launched) ==
  IF launched THEN Ok(<<>>)
  ELSE Threw(PlainError("Error", <<"Command failed: xdg-open">>))

\* ImageGenerator.openImagePreview: launched == TRUE when the viewer command
\* succeeds; the catch turns a failure into a log line, the promise resolves
openImagePreview(launched) == Ok(<<>>)

\* the files handlePreview launches a viewer for (indexes of files)
PreviewTargets(files, request) ==
  IF ~shouldAutoPreview(request) \/ Len(files) = 0 THEN {} ELSE 1..Len(files)

\* the characters of an enumerated argument value (a type, a mode, a style, ...)
WordChars(w) ==
    CASE w = "story" -> <<"s", "t", "o", "r", "y">>
      [] w = "process" -> <<"p", "r", "o", "c", "e", "s", "s">>
      [] w = "tutorial" -> <<"t", "u", "t", "o", "r", "i", "a", "l">>
      [] w = "timeline" -> <<"t", "i", "m", "e", "l", "i", "n", "e">>
      [] w = "edit" -> <<"e", "d", "i", "t">>
      [] w = "restore" -> <<"r", "e", "s", "t", "o", "r", "e">>
      [] w = "modern" -> <<"m", "o", "d", "e", "r", "n">>
      [] w = "flat" -> <<"f", "l", "a", "t">>
      [] w = "app-icon" -> <<"a", "p", "p", "-", "i", "c", "o", "n">>
      [] w = "favicon" -> <<"f", "a", "v", "i", "c", "o", "n">>
      [] w = "rounded" -> <<"r", "o", "u", "n", "d", "e", "d">>
      [] w = "sharp" -> <<"s", "h", "a", "r", "p">>
      [] w = "transparent" -> <<"t", "r", "a", "n", "s", "p", "a", "r", "e", "n", "t">>
      [] w = "white" -> <<"w", "h", "i", "t", "e">>
      [] w = "seamless" -> <<"s", "e", "a", "m", "l", "e", "s", "s">>
      [] w = "texture" -> <<"t", "e", "x", "t", "u", "r", "e">>
      [] w = "abstract" -> <<"a", "b", "s", "t", "r", "a", "c", "t">>
      [] w = "medium" -> <<"m", "e", "d", "i", "u", "m">>
      [] w = "colorful" -> <<"c", "o", "l", "o", "r", "f", "u", "l">>
      [] w = "256x256" -> <<"2", "5", "6", "x", "2", "5", "6">>
      [] w = "flowchart" -> <<"f", "l", "o", "w", "c", "h", "a", "r", "t">>
      [] w = "professional" -> <<"p", "r", "o", "f", "e", "s", "s", "i", "o", "n", "a", "l">>
      [] w = "hierarchical" -> <<"h", "i", "e", "r", "a", "r", "c", "h", "i", "c", "a", "l">>
      [] w = "detailed" -> <<"d", "e", "t", "a", "i", "l", "e", "d">>
      [] w = "accent" -> <<"a", "c", "c", "e", "n", "t">>
      [] OTHER -> <<w>>

\* the prompt text each operation hands to generateFilename for item i
FilenamePrompt(op, request, storyType, prompts, i) ==
  CASE op = "generate" ->
         IF request.styles.some \/ request.variations.some THEN prompts[i + 1]
         ELSE request.prompt
    [] op = "story" -> WordChars(storyType) \o <<"s", "t", "e", "p">> \o Digits(i + 1) \o request.prompt
    [] OTHER -> WordChars(request.mode) \o <<"_">> \o request.prompt

\* the format and index each operation hands to generateFilename
FilenameFormat(op, request) == IF op = "generate" THEN resolveFileFormat(request) ELSE "png"
FilenameIndex(op, i) == IF op = "generate" THEN i ELSE 0

(***************************************************************************)
(* Tool router: the response a tool call ends in.                          *)
(***************************************************************************)
NoResponse == [kind |-> "none", text |-> <<>>]
Content(text) == [kind |-> "content", text |-> text]
ErrorResponse(text) == [kind |-> "error", text |-> text]

\* the bullet character U+2022 and the blank after it
BULLET == "(U+2022) "

\* a handler that reports a failure as content instead of throwing
FormatResponseAlwaysContent(result) ==
  Content(IF result.success
          THEN result.message \o <<"\n\nGenerated files:\n">>
               \o join([k \in 1..Len(result.generatedFiles.v) |->
                          <<BULLET>> \o result.generatedFiles.v[k]], <<"\n">>)
          ELSE <<"Error: ">> \o result.error.v)

\* the tail of the CallTool handler: success is content, failure is thrown
FormatResponse(result) ==
  IF result.success
  THEN LET files == IF result.generatedFiles.some THEN result.generatedFiles.v ELSE <<>>
           bullets == join([k \in 1..Len(files) |-> <<BULLET>> \o files[k]], <<"\n">>)
       IN Content(result.message \o <<"\n\nGenerated files:\n">>
                  \o (IF bullets = <<>> THEN <<"None">> ELSE bullets))
  ELSE ErrorResponse(IF ~Falsy(result.error) THEN result.error.v ELSE result.message)

MSG_NO_KEY ==
  <<"ERROR: No model API key found. Please set the MODEL_API_KEY environment variable.\n",
    "For provider setup details, see your model host documentation (OpenRouter docs: https://openrouter.ai/docs#authenticate).">>

\* ImageGenerator.validateAuthentication
validateAuthentication(hasKey) ==
  IF hasKey THEN Ok(<<"MODEL_API_KEY">>) ELSE Threw(PlainError("Error", MSG_NO_KEY))

\* NanoBananaServer.constructor: the stored initialization error
ConstructorError(customGenerator, hasKey) ==
  IF customGenerator THEN None
  ELSE LET auth == validateAuthentication(hasKey)
       IN IF auth.threw THEN Some(auth.error.message) ELSE None

\* a handler that never looks at the stored error
NeverShortCircuits(initError) == FALSE

\* if (this.initializationError): the handler short-circuits
ShortCircuits(initError) == initError.some

InitErrorResponse(initError) == Content(<<"Tool execution failed: ">> \o initError.v)

(***************************************************************************)
(* Tool router: the request each tool hands to the orchestrator.  An       *)
(* absent string argument is "", an absent count is 0.                     *)
(***************************************************************************)
\* a || b on strings and counts
OrDefault(a, b) == IF a = "" THEN b ELSE a
OrCount(a, b) == IF a = 0 THEN b ELSE a

\* NanoBananaServer.buildIconPrompt
buildIconPrompt(args) ==
  LET basePrompt == IF args.prompt = <<>> THEN <<"a", "p", "p", " ", "i", "c", "o", "n">> ELSE args.prompt
      type == OrDefault(args.type, "app-icon")
      style == OrDefault(args.style, "modern")
      background == OrDefault(args.background, "transparent")
      corners == OrDefault(args.corners, "rounded")
  IN basePrompt \o COMMA_SP \o WordChars(style) \o <<" ", "s", "t", "y", "l", "e", " ">> \o WordChars(type)
     \o (IF type = "app-icon" THEN COMMA_SP \o WordChars(corners) \o <<" ", "c", "o", "r", "n", "e", "r", "s">>
         ELSE <<>>)
     \o (IF background # "transparent"
         THEN COMMA_SP \o WordChars(background) \o <<" ", "b", "a", "c", "k", "g", "r", "o", "u", "n", "d">>
         ELSE <<>>)
     \o <<",", " ", "c", "l", "e", "a", "n", " ", "d", "e", "s", "i", "g", "n", ",", " ", "h", "i", "g", "h", " ", "q", "u", "a", "l", "i", "t", "y", ",", " ", "p", "r", "o", "f", "e", "s", "s", "i", "o", "n", "a", "l">>

\* NanoBananaServer.buildPatternPrompt
buildPatternPrompt(args) ==
  LET basePrompt == IF args.prompt = <<>> THEN <<"a", "b", "s", "t", "r", "a", "c", "t", " ", "p", "a", "t", "t", "e", "r", "n">> ELSE args.prompt
      type == OrDefault(args.type, "seamless")
      style == OrDefault(args.style, "abstract")
  IN basePrompt \o COMMA_SP \o WordChars(style) \o <<" ", "s", "t", "y", "l", "e", " ">> \o WordChars(type)
     \o <<" ", "p", "a", "t", "t", "e", "r", "n", ",", " ">> \o WordChars("medium") \o <<" ", "d", "e", "n", "s", "i", "t", "y", ",", " ">>
     \o WordChars("colorful") \o <<" ", "c", "o", "l", "o", "r", "s">>
     \o (IF type = "seamless" THEN <<",", " ", "t", "i", "l", "e", "a", "b", "l", "e", ",", " ", "r", "e", "p", "e", "a", "t", "i", "n", "g", " ", "p", "a", "t", "t", "e", "r", "n">> ELSE <<>>)
     \o COMMA_SP \o WordChars("256x256") \o <<" ", "t", "i", "l", "e", " ", "s", "i", "z", "e", ",", " ", "h", "i", "g", "h", " ", "q", "u", "a", "l", "i", "t", "y">>

\* NanoBananaServer.buildDiagramPrompt
buildDiagramPrompt(args) ==
  LET basePrompt == IF args.prompt = <<>> THEN <<"s", "y", "s", "t", "e", "m", " ", "d", "i", "a", "g", "r", "a", "m">> ELSE args.prompt
      type == OrDefault(args.type, "flowchart")
      style == OrDefault(args.style, "professional")
  IN basePrompt \o COMMA_SP \o WordChars(type) \o <<" ", "d", "i", "a", "g", "r", "a", "m", ",", " ">> \o WordChars(style)
     \o <<" ", "s", "t", "y", "l", "e", ",", " ">> \o WordChars("hierarchical") \o <<" ", "l", "a", "y", "o", "u", "t">>
     \o COMMA_SP \o WordChars("detailed") \o <<" ", "l", "e", "v", "e", "l", " ", "o", "f", " ", "d", "e", "t", "a", "i", "l", ",", " ">>
     \o WordChars("accent") \o <<" ", "c", "o", "l", "o", "r", " ", "s", "c", "h", "e", "m", "e">>
     \o COMMA_SP \o WordChars("detailed") \o <<" ", "a", "n", "n", "o", "t", "a", "t", "i", "o", "n", "s", " ", "a", "n", "d", " ", "l", "a", "b", "e", "l", "s">>
     \o <<",", " ", "c", "l", "e", "a", "n", " ", "t", "e", "c", "h", "n", "i", "c", "a", "l", " ", "i", "l", "l", "u", "s", "t", "r", "a", "t", "i", "o", "n", ",", " ", "c", "l", "e", "a", "r", " ", "v", "i", "s", "u", "a", "l", " ", "h", "i", "e", "r", "a", "r", "c", "h", "y">>

\* the file argument: absent, or a name that is an absolute path or not
NoFile == [given |-> FALSE, absolute |-> FALSE, name |-> <<>>]
File(absolute, name) == [given |-> TRUE, absolute |-> absolute, name |-> name]

Request(prompt, mode, outputCount, styles, variations, fileFormat, inputImage, args) ==
  [prompt |-> prompt, mode |-> mode, outputCount |-> outputCount, styles |-> styles,
   variations |-> variations, fileFormat |-> fileFormat, inputImage |-> inputImage,
   preview |-> args.preview, noPreview |-> args.noPreview]

\* the imageRequest / storyRequest / diagramRequest the handler builds
BuildRequest(name, args) ==
  CASE name = "generate_image" ->
         Request(args.prompt, "generate", OrCount(args.outputCount, 1), args.styles,
                 args.variations, OrDefault(args.fileFormat, "png"), NoFile, args)
    [] name \in {"edit_image", "restore_image"} ->
         Request(args.prompt, IF name = "edit_image" THEN "edit" ELSE "restore", 0,
                 None, None, "", args.file, args)
    [] name = "generate_icon" ->
         Request(buildIconPrompt(args), "generate",
                 IF args.sizes > 0 THEN args.sizes ELSE 1, None, None, "", NoFile, args)
    [] name = "generate_pattern" ->
         Request(buildPatternPrompt(args), "generate", 1, None, None, "", NoFile, args)
    [] name = "generate_story" ->
         Request(args.prompt, "generate", OrCount(args.steps, DEFAULT_STEPS), None,
                 Some(<<"sequence-step">>), "", NoFile, args)
    [] OTHER ->
         Request(buildDiagramPrompt(args), "generate", 1, None, None, "", NoFile, args)

\* the orchestrator operation a tool is routed to
Operation(name) ==
  CASE name \in {"generate_image", "generate_icon", "generate_pattern", "generate_diagram"}
         -> "generate"
    [] name \in {"edit_image", "restore_image"} -> "edit"
    [] name = "generate_story" -> "story"
    [] OTHER -> "none"

(***************************************************************************)
(* State.                                                                  *)
(***************************************************************************)
VARIABLES
  initializationError, \* NanoBananaServer.initializationError
  response,            \* what the last tool call answered
  outDirExists,        \* the output directory exists
  outFiles,            \* names of the files in the output directory
  inputFiles,          \* the files of the other directories, <<dir, name>>
  inv,                 \* the invocation in progress: the locals of the operation
  app,                 \* a function of the program applied on its own: its
                       \* name, its arguments and, once applied, its result
  calls                \* the invocations in progress at the same time, when
                       \* the server handles more than one: their locals

vars ==
  <<initializationError, response, outDirExists, outFiles, inputFiles, inv, app, calls>>

\* no function is applied on its own: the server runs
NoApplication == [fn |-> "none"]

NoRequest ==
  [prompt |-> <<>>, mode |-> "", outputCount |-> 0, styles |-> None, variations |-> None,
   fileFormat |-> "", inputImage |-> NoFile, preview |-> FALSE, noPreview |-> FALSE]

\* The locals of one invocation.  pc is where the operation is suspended:
\* "idle" (none in progress), "await_read", "await_provider", "await_write",
\* "await_preview".  The fields from sent on record what happened.
NewFrame(op, request, storyType, prompts, n) ==
  [op |-> op, pc |-> "idle", request |-> request, storyType |-> storyType,
   prompts |-> prompts, n |-> n, i |-> 0,
   generatedFiles |-> <<>>, firstError |-> None,
   inFlight |-> {}, writing |-> None, previews |-> {}, previewThrew |-> FALSE,
   result |-> NoResult,
   sent |-> <<>>,            \* items handed to the provider, in order
   only401 |-> TRUE,         \* every provider outcome received was an HTTP 401
   authStatus |-> FALSE,     \* some provider outcome received was an HTTP 401 or 403
   imagesReturned |-> 0,     \* provider outcomes that carried a valid image
   written |-> 0,            \* files written
   writeFailed |-> FALSE,    \* a file write failed
   firstRaised |-> None,     \* classified message of the first item that raised
   abortedWith |-> None,     \* classified message the fast-fail returned on
   launched |-> 0,           \* preview launches started
   launchFailed |-> FALSE,   \* a preview launch failed
   tool |-> "",              \* the tool the caller named
   countGiven |-> FALSE]     \* the caller passed an outputCount

IdleFrame == NewFrame("none", NoRequest, "", <<>>, 0)

\* the frame of the operation a tool call starts
FrameOf(call, f) ==
  [f EXCEPT !.tool = call.name, !.countGiven = (call.args.outputCount # 0)]

\* the HTTP status of a provider outcome, 0 when fetch rejected
StatusOf(o) == IF o.rejected THEN 0 ELSE o.response.status

(***************************************************************************)
(* The steps of an operation, as functions from frame to frame.            *)
(***************************************************************************)
\* return r
Return(f, r) ==
  [f EXCEPT !.pc = "idle", !.result = r, !.inFlight = {}, !.writing = None,
            !.previews = {}]

\* await this.postJson(...) for item k
Send(f, k) ==
  [f EXCEPT !.pc = "await_provider", !.i = k, !.inFlight = @ \cup {k},
            !.sent = Append(@, k)]

\* a loop that stays on the same item
SameIndex(i) == i

\* i++ of the for loops
NextIndex(i) == i + 1

\* the result the operation returns when no preview is pending
Outcome(f) ==
  CASE f.op = "generate" -> GenerateOutcome(f.generatedFiles, f.firstError)
    [] f.op = "story" -> StoryOutcome(f.generatedFiles, f.firstError, f.n, f.storyType)
    [] OTHER -> EditSuccess(f.request.mode, f.generatedFiles[1])

\* after the loop: the zero-files failure, handlePreview, the success return
Finalize(f) ==
  LET r == Outcome(f)
      targets == PreviewTargets(f.generatedFiles, f.request)
  IN IF ~r.success THEN Return(f, r)
     ELSE IF targets = {} THEN Return(f, r)
     ELSE [f EXCEPT !.pc = "await_preview", !.previews = targets,
                    !.launched = Cardinality(targets)]

\* the next iteration of the loop, or what follows the loop
Advance(f) ==
  IF NextIndex(f.i) < f.n THEN Send(f, NextIndex(f.i)) ELSE Finalize(f)

\* entering the loop
Enter(f) == IF 0 < f.n THEN Send(f, 0) ELSE Finalize(f)

\* the catch of one item (generate, story); the outer catch (edit)
ItemError(f, error) ==
  IF f.op = "edit" THEN Return(f, OuterCatch(f.op, f.request.mode, error))
  ELSE LET errorMessage == handleApiError(error)
           f1 == [f EXCEPT !.firstError = RecordFirstError(@, errorMessage),
                           !.firstRaised = IF @.some THEN @ ELSE Some(errorMessage)]
       IN IF IsAuthenticationFailure(errorMessage)
          THEN Return([f1 EXCEPT !.abortedWith = Some(errorMessage)],
                      AuthFailResult(f.op, errorMessage, f1.firstError))
          ELSE Advance(f1)

\* the provider answered item k with outcome o
OnProvider(f, k, o, files) ==
  LET f0 == [f EXCEPT !.inFlight = @ \ {k},
                      !.only401 = @ /\ StatusOf(o) = 401,
                      !.authStatus = @ \/ StatusOf(o) \in {401, 403}]
      r == postJson(o)
  IN IF r.threw THEN ItemError(f0, r.error)
     ELSE LET imageBase64 == parseImageFromResponse(r.value)
          IN IF imageBase64.some
             THEN [f0 EXCEPT !.pc = "await_write",
                             !.imagesReturned = @ + 1,
                             !.writing = Some(generateFilename(
                                FilenamePrompt(f.op, f.request, f.storyType, f.prompts, k),
                                FilenameFormat(f.op, f.request),
                                FilenameIndex(f.op, k), files))]
             ELSE IF f.op = "edit" THEN Return(f0, EditNoImage(f.request.mode))
             ELSE Advance(f0)

\* fs.promises.writeFile finished
OnWrite(f, ok) ==
  IF ok
  THEN Advance([f EXCEPT !.writing = None, !.generatedFiles = Append(@, f.writing.v),
                         !.written = @ + 1])
  ELSE ItemError([f EXCEPT !.writing = None, !.writeFailed = TRUE], FS_WRITE_ERROR)

\* one openImagePreview promise settled; Promise.all settles with the last
OnPreview(f, k, launched) ==
  LET p == openImagePreview(launched)
      f1 == [f EXCEPT !.previews = @ \ {k}, !.previewThrew = @ \/ p.threw,
                      !.launchFailed = @ \/ ~launched]
  IN IF f1.previews # {} THEN f1
     ELSE IF f1.previewThrew
          THEN Return(f1, OuterCatch(f.op, f.request.mode,
                                     PlainError("Error", <<"Command failed: xdg-open">>)))
          ELSE Return(f1, Outcome(f1))

(***************************************************************************)
(* The tool calls and the worlds of the model.                             *)
(***************************************************************************)
PROMPT_FOX == <<"A", " ", "f", "o", "x">>
PROMPT_PUNCT == <<"!", "?">>
PHOTO == <<"p", ".", "p", "n", "g">>
A_FOX_PNG == <<"a", "_", "f", "o", "x", ".", "p", "n", "g">>

NO_PREVIEW == [preview |-> FALSE, noPreview |-> FALSE]
PREVIEW == [preview |-> TRUE, noPreview |-> FALSE]
SUPPRESSED == [preview |-> TRUE, noPreview |-> TRUE]

BaseArgs(prompt, flags) ==
  [prompt |-> prompt, outputCount |-> 0, styles |-> None, variations |-> None,
   preview |-> flags.preview, noPreview |-> flags.noPreview, fileFormat |-> "",
   file |-> NoFile, sizes |-> 0, steps |-> 0, type |-> "", style |-> "",
   background |-> "", corners |-> ""]

Call(name, args) == [name |-> name, args |-> args]

StyleVariations ==
  {<<None, None>>, <<Some(<<"watercolor", "sketch">>), None>>,
   <<Some(<<"anime">>), Some(<<"lighting", "glow">>)>>}

GenerateImageCalls ==
  {Call("generate_image",
        [BaseArgs(PROMPT_FOX, NO_PREVIEW) EXCEPT !.outputCount = c, !.styles = sv[1],
                                                 !.variations = sv[2]]) :
     c \in 0..MaxCount, sv \in StyleVariations}
  \cup {Call("generate_image",
        [BaseArgs(PROMPT_PUNCT, fl) EXCEPT !.outputCount = MaxCount, !.fileFormat = "jpeg"]) :
     fl \in {PREVIEW, SUPPRESSED}}

EditCalls ==
  {Call(name, [BaseArgs(PROMPT_FOX, NO_PREVIEW) EXCEPT !.file = file]) :
     name \in {"edit_image", "restore_image"},
     file \in {NoFile, File(FALSE, PHOTO), File(FALSE, A_FOX_PNG), File(TRUE, PHOTO)}}
  \cup {Call("edit_image", [BaseArgs(PROMPT_FOX, fl) EXCEPT !.file = File(FALSE, PHOTO)]) :
     fl \in {PREVIEW, SUPPRESSED}}

PresetCalls ==
  {Call("generate_icon",
        [BaseArgs(PROMPT_FOX, NO_PREVIEW) EXCEPT !.sizes = c, !.type = tb[1],
                                                 !.background = tb[2]]) :
     c \in {0, MaxCount}, tb \in {<<"", "">>, <<"favicon", "white">>}}
  \cup {Call("generate_pattern", [BaseArgs(<<>>, NO_PREVIEW) EXCEPT !.type = t]) :
     t \in {"", "texture"}}
  \cup {Call("generate_diagram", BaseArgs(PROMPT_FOX, PREVIEW))}

StoryCalls ==
  {Call("generate_story", [BaseArgs(PROMPT_FOX, NO_PREVIEW) EXCEPT !.steps = c]) :
     c \in 0..MaxCount}
  \cup {Call("generate_story",
             [BaseArgs(PROMPT_FOX, PREVIEW) EXCEPT !.steps = MaxCount, !.type = "process"])}

OtherCalls ==
  {Call("hello", BaseArgs(<<>>, NO_PREVIEW)), Call("no_such_tool", BaseArgs(<<>>, NO_PREVIEW))}

\* the maximum the tool schemas declare for outputCount and steps
SCHEMA_MAX == 8

\* a caller that does not keep to the declared maximum
OverLimitCalls ==
  {Call("generate_story", [BaseArgs(PROMPT_FOX, NO_PREVIEW) EXCEPT !.steps = SCHEMA_MAX + 1])}

ToolCalls == GenerateImageCalls \cup EditCalls \cup PresetCalls \cup StoryCalls \cup OtherCalls

\* the worlds a run starts in: is there an output directory, which files
\* are in it, which input files exist elsewhere
Worlds ==
  {[outDirExists |-> FALSE, outFiles |-> {}, inputFiles |-> {}],
   [outDirExists |-> TRUE, outFiles |-> {}, inputFiles |-> {<<"cwd/images", PHOTO>>}],
   [outDirExists |-> TRUE, outFiles |-> {A_FOX_PNG},
    inputFiles |-> {<<"cwd/input", PHOTO>>, <<"/", PHOTO>>}]}

(***************************************************************************)
(* Initial state: the server after construction.                           *)
(***************************************************************************)
Init ==
  /\ initializationError \in {ConstructorError(c, k) : c \in BOOLEAN, k \in BOOLEAN}
  /\ response = NoResponse
  /\ \E w \in Worlds :
       /\ outDirExists = w.outDirExists
       /\ outFiles = w.outFiles
       /\ inputFiles = w.inputFiles
  /\ inv = IdleFrame
  /\ app = NoApplication
  /\ calls = <<>>

(***************************************************************************)
(* Actions.                                                                *)
(***************************************************************************)
\* the synchronous head of an operation, up to its first await or its return;
\* mkdirOk: fs.mkdirSync succeeds, should ensureOutputDirectory need it
StartOperation(call, mkdirOk) ==
  LET op == Operation(call.name)
      request == BuildRequest(call.name, call.args)
      mkdirThrows == ~outDirExists /\ ~mkdirOk
  IN CASE op = "generate" ->
            LET prompts == buildBatchPrompts(request)
                f == FrameOf(call, NewFrame(op, request, "", prompts, Len(prompts)))
            IN IF mkdirThrows THEN Return(f, OuterCatch(op, request.mode, FS_MKDIR_ERROR))
               ELSE Enter(f)
       [] op = "story" ->
            LET steps == OrCount(request.outputCount, DEFAULT_STEPS)
                f == FrameOf(call, NewFrame(op, request, OrDefault(call.args.type, "story"),
                                            <<>>, steps))
            IN IF mkdirThrows THEN Return(f, OuterCatch(op, request.mode, FS_MKDIR_ERROR))
               ELSE Enter(f)
       [] OTHER ->
            LET f == FrameOf(call, NewFrame("edit", request, "", <<>>, 1))
                fileResult == findInputFile(request.inputImage, outFiles, inputFiles)
            IN IF ~request.inputImage.given \/ request.inputImage.name = <<>>
               THEN Return(f, EditMissingParameter)
               ELSE IF ~fileResult.found
                    THEN Return(f, EditNotFound(request.inputImage, fileResult))
               ELSE IF mkdirThrows
                    THEN Return(f, OuterCatch(op, request.mode, FS_MKDIR_ERROR))
               ELSE [f EXCEPT !.pc = "await_read"]

\* the operation got as far as ensureOutputDirectory without it throwing
CreatesDirectory(call, mkdirOk) ==
  /\ mkdirOk
  /\ Operation(call.name) # "none"
  /\ Operation(call.name) = "edit" =>
       LET file == call.args.file
       IN file.given /\ file.name # <<>> /\ findInputFile(file, outFiles, inputFiles).found

\* what the handler answers once the operation has returned
Answered(f, old) == IF f.pc = "idle" THEN FormatResponse(f.result) ELSE old

\* CallToolRequestSchema handler, up to the first await of the operation
CallTool(call, mkdirOk) ==
  /\ UNCHANGED <<app, calls>>
  /\ inv.pc = "idle"
  /\ ~inv.result.returned
  /\ UNCHANGED <<initializationError, outFiles, inputFiles>>
  /\ IF ShortCircuits(initializationError)
     THEN /\ response' = InitErrorResponse(initializationError)
          /\ UNCHANGED <<inv, outDirExists>>
     ELSE IF call.name = "hello"
     THEN /\ response' = Content(<<"Hello, ", "world", "!">>)
          /\ inv' = IdleFrame
          /\ UNCHANGED outDirExists
     ELSE IF Operation(call.name) = "none"
     THEN /\ response' = ErrorResponse(<<"Unknown tool: ", call.name>>)
          /\ inv' = IdleFrame
          /\ UNCHANGED outDirExists
     ELSE /\ inv' = StartOperation(call, mkdirOk)
          /\ response' = Answered(inv', NoResponse)
          /\ outDirExists' = (outDirExists \/ CreatesDirectory(call, mkdirOk))

\* fs.promises.readFile of the input image settles (editImage)
ReadCompletes(ok) ==
  /\ UNCHANGED <<app, calls>>
  /\ inv.pc = "await_read"
  /\ inv' = IF ok THEN Enter(inv)
            ELSE Return(inv, OuterCatch(inv.op, inv.request.mode, FS_READ_ERROR))
  /\ response' = Answered(inv', response)
  /\ UNCHANGED <<initializationError, outDirExists, outFiles, inputFiles>>

\* a provider call settles with outcome o
ProviderResponds(k, o) ==
  /\ UNCHANGED <<app, calls>>
  /\ inv.pc = "await_provider"
  /\ k \in inv.inFlight
  /\ inv' = OnProvider(inv, k, o, outFiles)
  /\ response' = Answered(inv', response)
  /\ UNCHANGED <<initializationError, outDirExists, outFiles, inputFiles>>

\* the write of saveImageFromBase64 settles
WriteCompletes(ok) ==
  /\ UNCHANGED <<app, calls>>
  /\ inv.pc = "await_write"
  /\ inv' = OnWrite(inv, ok)
  /\ outFiles' = IF ok THEN outFiles \cup {inv.writing.v} ELSE outFiles
  /\ response' = Answered(inv', response)
  /\ UNCHANGED <<initializationError, outDirExists, inputFiles>>

\* one preview launch settles
PreviewCompletes(k, launched) ==
  /\ UNCHANGED <<app, calls>>
  /\ inv.pc = "await_preview"
  /\ k \in inv.previews
  /\ inv' = OnPreview(inv, k, launched)
  /\ response' = Answered(inv', response)
  /\ UNCHANGED <<initializationError, outDirExists, outFiles, inputFiles>>

Next ==
  \/ \E call \in ToolCalls, mkdirOk \in BOOLEAN : CallTool(call, mkdirOk)
  \/ \E ok \in BOOLEAN : ReadCompletes(ok)
  \/ \E k \in 0..(DEFAULT_STEPS + MaxCount), o \in ProviderOutcomes : ProviderResponds(k, o)
  \/ \E ok \in BOOLEAN : WriteCompletes(ok)
  \/ \E k \in 1..(DEFAULT_STEPS + MaxCount), launched \in BOOLEAN : PreviewCompletes(k, launched)

Spec == Init /\ [][Next]_vars

\* provider outcomes of the runs under fairness, one of each kind: an image,
\* a server error, no image, an authentication failure, a transport failure
LiveOutcomes ==
  {Answer(200, <<"OK">>,
          JsonBody(Json(JAbsent, JAbsent, <<Item("image_generation_call", Some(IMG), <<>>)>>,
                        <<>>))),
   Answer(500, <<>>, TextBody(<<>>)),
   Answer(200, <<"OK">>, BODY_NO_DETAIL),
   Answer(401, <<"Unauthorized">>, BODY_PLAIN),
   Rejected(PlainError("TypeError", <<"fetch", " ", "failed">>))}

\* the file read, a provider call, a write, a preview launch settles
ReadStep == \E ok \in BOOLEAN : ReadCompletes(ok)
ProviderStep ==
  \E k \in 0..(DEFAULT_STEPS + MaxCount), o \in LiveOutcomes : ProviderResponds(k, o)
WriteStep == \E ok \in BOOLEAN : WriteCompletes(ok)
PreviewStep ==
  \E k \in 1..(DEFAULT_STEPS + MaxCount), launched \in BOOLEAN : PreviewCompletes(k, launched)

NextLive ==
  \/ \E call \in ToolCalls, mkdirOk \in BOOLEAN : CallTool(call, mkdirOk)
  \/ ReadStep
  \/ ProviderStep
  \/ WriteStep
  \/ PreviewStep

\* the server in an environment where every awaited operation settles (an
\* invocation awaits one kind of operation at a time)
SpecLive ==
  Init /\ [][NextLive]_vars /\ WF_vars(ReadStep \/ ProviderStep \/ WriteStep \/ PreviewStep)

(***************************************************************************)
(* The server called with a count above the maximum its schema declares:   *)
(* the same handler and operations, a caller that ignores the schema.      *)
(***************************************************************************)
\* provider outcomes of these runs: an image, a server error, no image
OverLimitOutcomes ==
  {Answer(200, <<"OK">>,
          JsonBody(Json(JAbsent, JAbsent, <<Item("image_generation_call", Some(IMG), <<>>)>>,
                        <<>>))),
   Answer(500, <<>>, TextBody(<<>>)),
   Answer(200, <<"OK">>, BODY_NO_DETAIL)}

NextOverLimit ==
  \/ \E call \in OverLimitCalls, mkdirOk \in BOOLEAN : CallTool(call, mkdirOk)
  \/ \E k \in 0..SCHEMA_MAX, o \in OverLimitOutcomes : ProviderResponds(k, o)
  \/ \E ok \in BOOLEAN : WriteCompletes(ok)

SpecOverLimit == Init /\ [][NextOverLimit]_vars

(***************************************************************************)
(* Two invocations in progress at the same time.  The handler is async:    *)
(* while one invocation awaits the provider or a write, the server takes   *)
(* the next request; the continuations of the two interleave at their      *)
(* awaits and share the output directory.                                  *)
(***************************************************************************)
Invocations == {1, 2}

ConcurrentCalls ==
  {Call("generate_image", [BaseArgs(prompt, NO_PREVIEW) EXCEPT !.outputCount = c]) :
     prompt \in {PROMPT_FOX, PROMPT_PUNCT}, c \in {0, 2}}
  \cup {Call("generate_story", [BaseArgs(PROMPT_FOX, NO_PREVIEW) EXCEPT !.steps = 2])}

InitConcurrent ==
  /\ initializationError = None
  /\ response = NoResponse
  /\ outDirExists = TRUE
  /\ outFiles \in {{}, {A_FOX_PNG}}
  /\ inputFiles = {}
  /\ inv = IdleFrame
  /\ app = NoApplication
  /\ calls = [p \in Invocations |-> IdleFrame]

\* CallToolRequestSchema handler for invocation p, up to its first await
CallToolOf(p, call) ==
  /\ calls[p].pc = "idle" /\ ~calls[p].result.returned
  /\ ~ShortCircuits(initializationError)
  /\ Operation(call.name) # "none"
  /\ calls' = [calls EXCEPT ![p] = StartOperation(call, TRUE)]
  /\ response' = Answered(calls'[p], response)
  /\ UNCHANGED <<initializationError, outDirExists, outFiles, inputFiles, inv, app>>

\* a provider call of invocation p settles with outcome o; on an image the
\* continuation runs generateFilename against the directory as it is now
ProviderRespondsTo(p, k, o) ==
  /\ calls[p].pc = "await_provider"
  /\ k \in calls[p].inFlight
  /\ calls' = [calls EXCEPT ![p] = OnProvider(calls[p], k, o, outFiles)]
  /\ response' = Answered(calls'[p], response)
  /\ UNCHANGED <<initializationError, outDirExists, outFiles, inputFiles, inv, app>>

\* fs.promises.writeFile of invocation p has opened its file: the file is
\* in the directory before the write settles
FileOpenedOf(p) ==
  /\ calls[p].pc = "await_write"
  /\ calls[p].writing.v \notin outFiles
  /\ outFiles' = outFiles \cup {calls[p].writing.v}
  /\ UNCHANGED <<initializationError, response, outDirExists, inputFiles, inv, app, calls>>

\* the write of saveImageFromBase64 of invocation p settles
WriteCompletesOf(p, ok) ==
  /\ calls[p].pc = "await_write"
  /\ calls' = [calls EXCEPT ![p] = OnWrite(calls[p], ok)]
  /\ outFiles' = IF ok THEN outFiles \cup {calls[p].writing.v} ELSE outFiles
  /\ response' = Answered(calls'[p], response)
  /\ UNCHANGED <<initializationError, outDirExists, inputFiles, inv, app>>

NextConcurrent ==
  \/ \E p \in Invocations, call \in ConcurrentCalls : CallToolOf(p, call)
  \/ \E p \in Invocations, k \in 0..1, o \in OverLimitOutcomes : ProviderRespondsTo(p, k, o)
  \/ \E p \in Invocations : FileOpenedOf(p)
  \/ \E p \in Invocations, ok \in BOOLEAN : WriteCompletesOf(p, ok)

SpecConcurrent == InitConcurrent /\ [][NextConcurrent]_vars

(***************************************************************************)
(* Functions of the program applied on their own.  The server's variables  *)
(* stay as after construction; app holds the arguments and the result.     *)
(***************************************************************************)
\* the server at rest, its output directory holding the files dir
AtRest(dir) ==
  /\ initializationError = None
  /\ response = NoResponse
  /\ outDirExists = TRUE
  /\ outFiles = dir
  /\ inputFiles = {}
  /\ inv = IdleFrame
  /\ calls = <<>>

\* all sequences over alphabet of length 0..n
SeqsUpTo(alphabet, n) == UNION {[1..m -> alphabet] : m \in 0..n}

\* largest length of the short prompts handed to generateFilename
MaxPromptLen == 3

\* characters of the short prompts: letters of both cases, a digit, blanks,
\* punctuation
PromptAlphabet == {"A", "b", "7", " ", "\t", "!"}

\* prompts longer than the base name may get
LongPrompts ==
  {[k \in 1..40 |-> IF k % 8 = 0 THEN " " ELSE "b"],
   [k \in 1..34 |-> IF k \in {32, 33} THEN " " ELSE "7"],
   [k \in 1..36 |-> IF k % 2 = 0 THEN "!" ELSE "A"],
   [k \in 1..33 |-> "b"]}

GENERATED_IMAGE_PNG ==
  <<"g", "e", "n", "e", "r", "a", "t", "e", "d", "_", "i", "m", "a", "g", "e", ".", "p", "n", "g">>

\* output directories the names are asked in
Directories ==
  {{},
   {<<"a", ".", "p", "n", "g">>, <<"b", ".", "j", "p", "g">>, GENERATED_IMAGE_PNG},
   {<<"a", ".", "p", "n", "g">>, <<"a", "_", "1", ".", "p", "n", "g">>,
    <<"a", "_", "2", ".", "p", "n", "g">>, GENERATED_IMAGE_PNG}}

InitFilename ==
  \E dir \in Directories :
    /\ AtRest(dir)
    /\ app \in [fn : {"generateFilename"},
                prompt : SeqsUpTo(PromptAlphabet, MaxPromptLen) \cup LongPrompts,
                format : {"png", "jpeg"}, index : 0..2,
                done : {FALSE}, result : {<<>>}]

\* FileHandler.generateFilename(prompt, format, index) in the directory outFiles
ApplyGenerateFilename ==
  /\ app.fn = "generateFilename" /\ ~app.done
  /\ app' = [app EXCEPT !.done = TRUE,
                         !.result = generateFilename(app.prompt, app.format, app.index,
                                                     outFiles)]
  /\ UNCHANGED <<initializationError, response, outDirExists, outFiles, inputFiles, inv, calls>>

NextFilename == ApplyGenerateFilename

SpecFilename == InitFilename /\ [][NextFilename]_vars

\* largest number of styles, and of variations, in one request
MaxTags == 2

\* the tags of the variation table, and one that is not in it
KnownVariations ==
  {"lighting", "angle", "color-palette", "composition", "mood", "season", "time-of-day"}

\* all sequences over alphabet of length lo..hi
SeqsBetween(alphabet, lo, hi) == UNION {[1..m -> alphabet] : m \in lo..hi}

StyleLists == {None} \cup {Some(l) : l \in SeqsUpTo({"watercolor", "sketch"}, MaxTags)}

VariationLists ==
  {None} \cup {Some(l) : l \in SeqsUpTo(KnownVariations \cup {"glow"}, 1)}
         \cup {Some(l) : l \in SeqsBetween({"lighting", "season", "glow"}, 2, MaxTags)}

InitPrompts ==
  /\ AtRest({})
  /\ app \in [fn : {"buildBatchPrompts"},
              request : [prompt : {<<>>, PROMPT_FOX}, styles : StyleLists,
                         variations : VariationLists, outputCount : (0 - 2)..(MaxCount + 1)],
              done : {FALSE}, result : {<<>>}]

\* ImageGenerator.buildBatchPrompts(request)
ApplyBuildBatchPrompts ==
  /\ app.fn = "buildBatchPrompts" /\ ~app.done
  /\ app' = [app EXCEPT !.done = TRUE, !.result = buildBatchPrompts(app.request)]
  /\ UNCHANGED <<initializationError, response, outDirExists, outFiles, inputFiles, inv, calls>>

NextPrompts == ApplyBuildBatchPrompts

SpecPrompts == InitPrompts /\ [][NextPrompts]_vars

\* largest number of runs of a candidate string
MaxRuns == 2

\* candidate strings: runs of a letter, of '+', of '=' and of '!', of
\* lengths around the two thresholds
CandidateRuns ==
  {Run(a, n) : a \in {"A", "+", "=", "!"}, n \in {1, 2, 3, 99, 497, 998, 1000}}

InitBase64 ==
  /\ AtRest({})
  /\ app \in [fn : {"isValidBase64ImageData"}, data : SeqsUpTo(CandidateRuns, MaxRuns),
              done : {FALSE}, result : {FALSE}]

\* ImageGenerator.isValidBase64ImageData(data)
ApplyIsValidBase64ImageData ==
  /\ app.fn = "isValidBase64ImageData" /\ ~app.done
  /\ app' = [app EXCEPT !.done = TRUE, !.result = isValidBase64ImageData(app.data)]
  /\ UNCHANGED <<initializationError, response, outDirExists, outFiles, inputFiles, inv, calls>>

NextBase64 == ApplyIsValidBase64ImageData

SpecBase64 == InitBase64 /\ [][NextBase64]_vars

\* largest number of entries of a legacy data array
MaxEntries == 1

\* what a field of a response can hold
FieldValues == {None, Some(SHORT_DATA), Some(IMG)}
UrlValues ==
  {None, Some(<<>>), Some(HTTP_URL), Some(DATA_URL), Some(IMG_PADDED), Some(SHORT_DATA),
   Some(<<Run("data:image", 1), Run("/png;base64", 1), Run(",", 1), Run("z", 500)>>),
   Some(<<Run("data:image", 1), Run("/png;base64", 1), Run("z", 1000)>>),
   Some(<<Run("http", 1), Run("A", 1000)>>)}

ParsedResponses ==
  {JsonNull} \cup
  {Json(JAbsent, JAbsent, output, data) :
     output \in {<<>>, <<Item("message", None, <<Part(None, None, Some(SHORT_DATA), None)>>)>>,
                 <<Item("image_generation_call", Some(IMG), <<>>)>>},
     data \in SeqsUpTo({Entry(b, c, u) : b \in FieldValues, c \in FieldValues, u \in UrlValues},
                       MaxEntries)}

InitParse ==
  /\ AtRest({})
  /\ app \in [fn : {"parseImageFromResponse"}, response : ParsedResponses,
              done : {FALSE}, result : {None}]

\* ImageGenerator.parseImageFromResponse(response)
ApplyParseImageFromResponse ==
  /\ app.fn = "parseImageFromResponse" /\ ~app.done
  /\ app' = [app EXCEPT !.done = TRUE, !.result = parseImageFromResponse(app.response)]
  /\ UNCHANGED <<initializationError, response, outDirExists, outFiles, inputFiles, inv, calls>>

NextParse == ApplyParseImageFromResponse

SpecParse == InitParse /\ [][NextParse]_vars

\* largest number of items of an output array
MaxItems == 2

\* a valid payload that tells where it was put: field f of entry j of item k
Payload(f, k, j) == <<Run(f, 1000 + 10 * k + j)>>

\* the fields of a content entry that hold valid data, the others holding
\* nothing, short data, a data URL of short data and the empty string
PartAt(k, j, valid) ==
  Part(IF "image_base64" \in valid THEN Some(Payload("A", k, j)) ELSE None,
       IF "result" \in valid THEN Some(Payload("z", k, j)) ELSE Some(SHORT_DATA),
       IF "data" \in valid
       THEN Some(<<Run("data:image", 1), Run("/png;base64", 1), Run(",", 1)>> \o Payload("0", k, j))
       ELSE Some(<<Run("data:image", 1), Run(",", 1), Run("0", 500)>>),
       IF "text" \in valid THEN Some(Payload("9", k, j)) ELSE Some(<<>>))

\* content arrays of item k: none, one entry, or two entries
ContentsAt(k) ==
  {<<>>}
  \cup {<<PartAt(k, 1, v)>> :
          v \in {{"data", "text"}, {"result", "data"}, {"image_base64", "result", "data", "text"}}}
  \cup {<<PartAt(k, 1, {}), PartAt(k, 2, {"text"})>>,
        <<PartAt(k, 1, {"text"}), PartAt(k, 2, {"image_base64", "text"})>>}

\* item k of an output array: an image_generation_call without or with a
\* valid result, or another item (a result it holds is not looked at)
ItemsAt(k) ==
  {Item("image_generation_call", result, content) :
     result \in {Some(SHORT_DATA), Some(Payload("+", k, 0))}, content \in ContentsAt(k)}
  \cup {Item("message", None, content) : content \in ContentsAt(k)}
  \cup {Item("message", Some(Payload("+", k, 0)), <<>>)}

\* output arrays of m items, the k-th from ItemsAt(k)
RECURSIVE OutputsOfLen(_)
OutputsOfLen(m) ==
  IF m = 0 THEN {<<>>}
  ELSE {Append(output, item) : output \in OutputsOfLen(m - 1), item \in ItemsAt(m)}

OrderedResponses ==
  {Json(JAbsent, JAbsent, output, data) :
     output \in UNION {OutputsOfLen(m) : m \in 0..MaxItems},
     data \in {<<>>, <<Entry(Some(SHORT_DATA), None, None)>>, <<Entry(None, Some(IMG), None)>>}}

InitParseOrder ==
  /\ AtRest({})
  /\ app \in [fn : {"parseImageFromResponse"}, response : OrderedResponses,
              done : {FALSE}, result : {None}]

SpecParseOrder == InitParseOrder /\ [][NextParse]_vars

\* what a provider answers with: bodies that are no JSON, JSON without a
\* message, with a string message and with a message that is no string
ClientBodies ==
  {BODY_PLAIN, BODY_AUTH_TEXT, BODY_NO_STRING, BODY_NO_DETAIL,
   JsonBody(Json(JStr(<<>>), JObj, <<>>, <<>>)),
   JsonBody(Json(JStr(<<>>), JStr(DETAIL_PLAIN), <<>>, <<>>)),
   JsonBody(JsonNull),
   JsonBody(Json(JAbsent, JAbsent, <<Item("image_generation_call", Some(IMG), <<>>)>>, <<>>)),
   TextBody(<<>>), TextBody(<<" ", "\n">>), TextBody(<<"<html>">>),
   TextBody(<<" ", "gateway", " ", "down", "\n">>)}

ClientOutcomes ==
  {Answer(status, statusText, body) :
     status \in {200, 204, 302, 400, 401, 403, 404, 429, 500, 503},
     statusText \in {<<>>, <<"Status", " ", "Text">>},
     body \in ClientBodies}
  \cup {Rejected(PlainError("TypeError", <<"fetch", " ", "failed">>)),
        Rejected(PlainError("Error", <<"socket", " ", "hang", " ", "up">>))}

\* what a catch block can hold
ThrownErrors ==
  {OpenRouterApiError(message, status, <<>>) :
     message \in {<<>>, DETAIL_PLAIN, DETAIL_AUTH, <<"fetch", " ", "failed">>},
     status \in {0, 200, 302, 400, 401, 403, 404, 418, 429, 499, 500, 502, 599}}
  \cup {PlainError(cls, message) :
          cls \in {"TypeError", "Error", "string"},
          message \in {<<>>, DETAIL_PLAIN, DETAIL_AUTH, <<"fetch", " ", "failed">>,
                       <<"TypeError", ":", " ", "Fetch", " ", "failed", " ", "again">>,
                       <<"fetch", "failed">>, <<"failed", " ", "fetch">>}}

InitClient ==
  /\ AtRest({})
  /\ \/ app \in [fn : {"postJson"}, outcome : ClientOutcomes, called : {FALSE},
                 result : {Ok(JsonNull)}, error : {NoError}, done : {FALSE},
                 message : {<<>>}]
     \/ app \in [fn : {"handleApiError"}, outcome : {Rejected(NoError)}, called : {FALSE},
                 result : {Ok(JsonNull)}, error : ThrownErrors, done : {FALSE},
                 message : {<<>>}]

\* ImageGenerator.postJson(pathName, body); what it throws goes to the catch
ApplyPostJson ==
  /\ app.fn = "postJson" /\ ~app.called
  /\ LET r == postJson(app.outcome)
     IN app' = IF r.threw
               THEN [app EXCEPT !.called = TRUE, !.result = r, !.fn = "handleApiError",
                                !.error = r.error]
               ELSE [app EXCEPT !.called = TRUE, !.result = r, !.done = TRUE]
  /\ UNCHANGED <<initializationError, response, outDirExists, outFiles, inputFiles, inv, calls>>

\* ImageGenerator.handleApiError(error)
ApplyHandleApiError ==
  /\ app.fn = "handleApiError" /\ ~app.done
  /\ app' = [app EXCEPT !.done = TRUE, !.message = handleApiError(app.error)]
  /\ UNCHANGED <<initializationError, response, outDirExists, outFiles, inputFiles, inv, calls>>

NextClient == ApplyPostJson \/ ApplyHandleApiError

SpecClient == InitClient /\ [][NextClient]_vars

(***************************************************************************)
(* Properties.                                                             *)
(***************************************************************************)
\* an operation has returned its result
Returned == inv.pc = "idle" /\ inv.result.returned
\* the operation is generateTextToImage or generateStorySequence
Batch == inv.op \in {"generate", "story"}
\* the text contains 'authentication failed', case-insensitively
MentionsAuthFailure(text) == includes(toLowerCase(text), AUTH_FAILED)

\* C1 (as stated): a generate or story invocation returns success=false only
\* if it wrote zero images, and success=true whenever it wrote at least one.
C1_FailureOnlyWithoutImages ==
  (Returned /\ Batch) => (inv.result.success <=> inv.written >= 1)

\* C1 (amended): a generate or story invocation returns success=true exactly
\* when it wrote at least one image and was not aborted by the authentication
\* fast-fail; an abort returns success=false whatever was written before it.
C1_FailureOnlyWithoutImagesOrAbort ==
  (Returned /\ Batch) =>
    (inv.result.success <=> (inv.written >= 1 /\ ~inv.abortedWith.some))

\* C1 witness: an invocation that wrote an image and then was aborted.
C1_Witness ==
  Returned /\ Batch /\ inv.written >= 1 /\ inv.abortedWith.some /\ ~inv.result.success

\* C2: when every provider answer is an HTTP 401, a generate request of 3
\* prompts makes exactly 1 provider call and returns success=false with a
\* text containing "authentication failed".
C2_Always401FailsFast ==
  (Returned /\ inv.op = "generate" /\ inv.n = 3 /\ inv.sent # <<>> /\ inv.only401) =>
    /\ Len(inv.sent) = 1
    /\ ~inv.result.success
    /\ inv.result.error.some /\ MentionsAuthFailure(inv.result.error.v)

\* C3: in a generate batch whose items either return a valid image or fail
\* without an authentication status, every prompt is attempted, the result
\* is success=true, one path is listed per returned image and the message
\* reports that count.
C3_PartialSuccess ==
  (Returned /\ inv.op = "generate" /\ inv.sent # <<>> /\ ~inv.authStatus
     /\ ~inv.writeFailed /\ inv.imagesReturned >= 1) =>
    /\ Len(inv.sent) = inv.n
    /\ inv.result.success
    /\ inv.result.generatedFiles.some
    /\ Len(inv.result.generatedFiles.v) = inv.imagesReturned
    /\ includes(inv.result.message, <<ToString(inv.imagesReturned)>>)

\* C4: every result of generate, story and edit has success=true if and only
\* if generatedFiles is present and non-empty.
C4_SuccessIffFiles ==
  (Returned /\ inv.op \in {"generate", "story", "edit"}) =>
    (inv.result.success <=>
       (inv.result.generatedFiles.some /\ Len(inv.result.generatedFiles.v) >= 1))

\* C4 witness: a story that succeeded with fewer files than steps.
C4_Witness ==
  Returned /\ inv.op = "story" /\ inv.result.success
  /\ Len(inv.result.generatedFiles.v) < inv.n

\* C5 (as stated): a failure returned after per-item errors carries the
\* classified message of the first item that raised; later errors never
\* replace it.
C5_FirstErrorReported ==
  (Returned /\ Batch /\ ~inv.result.success /\ inv.firstRaised.some) =>
    inv.result.error = inv.firstRaised

\* C5 (amended): a failure returned after per-item errors carries the
\* classified message of the first item that raised, unless the invocation
\* was aborted by the authentication fast-fail: then it carries the
\* classified message of the aborting item.
C5_FirstErrorUnlessAbort ==
  (Returned /\ Batch /\ ~inv.result.success /\ inv.firstRaised.some) =>
    inv.result.error = (IF inv.abortedWith.some THEN inv.abortedWith ELSE inv.firstRaised)

\* C5 witness: an abort whose message differs from the first error recorded.
C5_Witness ==
  Returned /\ Batch /\ ~inv.result.success /\ inv.firstRaised.some
  /\ inv.abortedWith.some /\ inv.abortedWith # inv.firstRaised

\* C6: when no provider answer carries an authentication status (401/403),
\* no per-item failure stops the batch: every prompt/step is attempted.
C6_NonAuthNeverStops ==
  (Returned /\ Batch /\ inv.sent # <<>> /\ ~inv.authStatus) => Len(inv.sent) = inv.n

\* C7: provider calls go out one at a time in item order, each item once; a
\* call is in flight only when every earlier item is fully handled (no write
\* pending).
C7_Sequential ==
  /\ Cardinality(inv.inFlight) <= 1
  /\ inv.sent = [k \in 1..Len(inv.sent) |-> k - 1]
  /\ inv.inFlight # {} =>
       /\ inv.inFlight = {Len(inv.sent) - 1}
       /\ inv.pc = "await_provider"
       /\ ~inv.writing.some
       /\ Len(inv.generatedFiles) = inv.written
  /\ inv.pc = "await_write" => inv.inFlight = {}

\* C7 witness: the third call of a story is in flight after a file was written.
C7_Witness ==
  inv.op = "story" /\ inv.inFlight = {2} /\ inv.written >= 1 /\ inv.firstRaised.some

\* the input file is in none of the places findInputFile looks at
CannotBeLocated(file) ==
  /\ file.given /\ file.name # <<>>
  /\ ~(file.absolute /\ <<"/", file.name>> \in inputFiles)
  /\ file.absolute \/
       \A k \in 1..Len(SEARCH_PATHS) : ~ExistsIn(SEARCH_PATHS[k], file.name, outFiles, inputFiles)

\* C8: editImage with an input file that cannot be located returns
\* success=false with an error listing the searched directories, makes no
\* provider call and writes no file.
C8_EditMissingInput ==
  (Returned /\ inv.op = "edit" /\ CannotBeLocated(inv.request.inputImage)) =>
    /\ ~inv.result.success
    /\ inv.result.error.some
    /\ inv.result.error.v[1] = "Searched in: "
    /\ \A k \in 1..Len(SEARCH_PATHS) :
         \E j \in 1..Len(inv.result.error.v) : inv.result.error.v[j] = SEARCH_PATHS[k]
    /\ inv.sent = <<>>
    /\ inv.written = 0 /\ ~inv.writing.some

\* C8 witness: an edit of a missing file has returned.
C8_Witness ==
  Returned /\ inv.op = "edit" /\ CannotBeLocated(inv.request.inputImage)
  /\ ~inv.request.inputImage.absolute

\* C9: with a stored initialization error, every step leaves the error as it
\* is, starts no operation and no provider call, and answers with a response
\* carrying the stored error.
C9_InitErrorShortCircuits ==
  [][initializationError.some =>
       /\ initializationError' = initializationError
       /\ inv' = IdleFrame
       /\ response'.kind = "content"
       /\ response'.text[1] = "Tool execution failed: "
       /\ includes(response'.text, initializationError.v)]_vars

\* C9 witness: a tool call was answered with the stored error.
C9_Witness ==
  initializationError.some /\ response.kind = "content"
  /\ includes(response.text, initializationError.v)

\* C10: previews are launched only when preview is requested, not
\* suppressed and a file was produced, one per file; and the result returned
\* after them is the success result of the files, whether launches failed or not.
C10_PreviewNeverAffectsResult ==
  /\ inv.launched > 0 =>
       /\ inv.request.preview /\ ~inv.request.noPreview
       /\ Len(inv.generatedFiles) >= 1
       /\ inv.launched = Len(inv.generatedFiles)
  /\ (Returned /\ inv.launched > 0) =>
       /\ inv.result.success
       /\ inv.result.generatedFiles = Some(inv.generatedFiles)
       /\ ~inv.result.error.some
       /\ inv.result.message = Outcome(inv).message

\* C10 witness: a result returned after two launches, one of which failed.
C10_Witness ==
  Returned /\ inv.launched >= 2 /\ inv.launchFailed /\ inv.result.success

\* C11: the request handed to the orchestrator has outputCount within 1..8
\* (generate) or 2..8 (story), and no invocation issues more than 8 provider
\* calls, whatever counts the caller supplies.
C11_CountWithinSchema ==
  inv.op \in {"generate", "story"} =>
    /\ inv.request.outputCount >= (IF inv.op = "story" THEN 2 ELSE 1)
    /\ inv.request.outputCount <= SCHEMA_MAX
    /\ Len(inv.sent) <= SCHEMA_MAX

\* C12: a generate_image call with k styles, no variations and no count
\* compiles k prompts, one per style, and sends each of them unless the
\* batch is aborted.
C12_OnePromptPerStyle ==
  (inv.tool = "generate_image" /\ ~inv.countGiven /\ inv.request.styles.some
     /\ Len(inv.request.styles.v) >= 1 /\ ~inv.request.variations.some) =>
    /\ inv.n = Len(inv.request.styles.v)
    /\ (Returned /\ inv.sent # <<>> /\ ~inv.abortedWith.some) =>
         Len(inv.sent) = Len(inv.request.styles.v)

\* the "(bullet) path" lines of a non-empty file list, one per file, in order
RECURSIVE BulletLines(_)
BulletLines(files) ==
  IF Len(files) = 1 THEN <<BULLET>> \o files[1]
  ELSE <<BULLET>> \o files[1] \o <<"\n">> \o BulletLines(Tail(files))

\* C13: a result with success=true is answered as the text
\* "{message}\n\nGenerated files:\n" followed by one bullet line per file in
\* order ("None" without files); a result with success=false is raised as an
\* error carrying its error text (its message when there is no error text).
C13_ResponseFormat ==
  /\ Returned =>
       IF inv.result.success
       THEN /\ response.kind = "content"
            /\ response.text = inv.result.message \o <<"\n\nGenerated files:\n">>
                                  \o BulletLines(inv.result.generatedFiles.v)
       ELSE /\ response.kind = "error"
            /\ response.text = inv.result.error.v
  /\ \A files \in {None, Some(<<>>)} :
       FormatResponse([Success(<<"Done">>, <<>>) EXCEPT !.generatedFiles = files])
         = Content(<<"Done", "\n\nGenerated files:\n", "None">>)
  /\ \A error \in {None, Some(<<>>)} :
       FormatResponse([Failure(<<"Failed">>, <<>>) EXCEPT !.error = error])
         = ErrorResponse(<<"Failed">>)

\* C13 witness: a success with two files and its answer.
C13_Witness ==
  Returned /\ inv.result.success /\ Len(inv.result.generatedFiles.v) = 2
  /\ response.kind = "content"

\* the name is "{base}_{counter}.png|jpg" for some counter
HasCounterSuffix(fileName, base) ==
  \E c \in 1..(MaxCount + 2), ext \in {"png", "jpeg"} :
    fileName = base \o <<"_">> \o Digits(c) \o <<".">> \o Extension(ext)

\* C14: the name generateFilename returned is not in the output directory
\* when the write starts; the files of one invocation are pairwise distinct;
\* and when the same prompt is named again (the first file saved in between)
\* the later names carry a numeric counter suffix.
C14_FreshFilenames ==
  /\ inv.writing.some => inv.writing.v \notin outFiles
  /\ \A j, k \in 1..Len(inv.generatedFiles) :
       j # k => inv.generatedFiles[j] # inv.generatedFiles[k]
  /\ \A k \in 1..Len(inv.generatedFiles) : inv.generatedFiles[k] \in outFiles
  /\ (inv.op = "generate" /\ ~inv.request.styles.some /\ ~inv.request.variations.some) =>
       /\ \A k \in 2..Len(inv.generatedFiles) :
            HasCounterSuffix(inv.generatedFiles[k], BaseName(inv.request.prompt))
       /\ (inv.generatedFiles # <<>> /\ inv.writing.some) =>
            HasCounterSuffix(inv.writing.v, BaseName(inv.request.prompt))

\* C14 witness: the third name of a batch that repeats one prompt, in a
\* directory that held a file of that prompt's plain name before.
C14_Witness ==
  /\ inv.op = "generate" /\ ~inv.request.styles.some /\ ~inv.request.variations.some
  /\ Len(inv.generatedFiles) = 2 /\ inv.writing.some
  /\ inv.request.prompt = PROMPT_FOX
  /\ A_FOX_PNG \in outFiles /\ A_FOX_PNG # inv.generatedFiles[1]

\* the base name as the claim derives it: character by character, dropping
\* what is not a-z, 0-9 or blank after lowercasing, one underscore per run of
\* blanks (a dropped character does not end a run)
RECURSIVE DerivedName(_, _)
DerivedName(s, inRun) ==
  IF s = <<>> THEN <<>>
  ELSE LET c == CASE Head(s) = "A" -> "a" [] Head(s) = "B" -> "b" [] OTHER -> Head(s)
       IN IF c \in {" ", "\t", "\n"}
          THEN (IF inRun THEN <<>> ELSE <<"_">>) \o DerivedName(Tail(s), TRUE)
          ELSE IF c \in LowerAlnum THEN <<c>> \o DerivedName(Tail(s), FALSE)
          ELSE DerivedName(Tail(s), inRun)

\* C15: generateFilename names the file after the prompt lowercased, stripped
\* of every character outside a-z, 0-9 and blanks, each run of blanks
\* replaced by one underscore, cut to 32 characters; "generated_image" when
\* nothing is left; a counter suffix only when the plain name exists.
C15_DerivedBaseName ==
  (app.fn = "generateFilename" /\ app.done) =>
    LET derived == DerivedName(app.prompt, FALSE)
        base == IF derived = <<>>
                THEN <<"g", "e", "n", "e", "r", "a", "t", "e", "d", "_", "i", "m", "a", "g", "e">>
                ELSE SubSeq(derived, 1, Min(Len(derived), 32))
        ext == IF app.format = "jpeg" THEN <<".", "j", "p", "g">> ELSE <<".", "p", "n", "g">>
    IN IF base \o ext \notin outFiles THEN app.result = base \o ext
       ELSE \E c \in 1..9 : app.result = base \o <<"_", ToString(c)>> \o ext

\* C15 witness: an all-punctuation prompt named "generated_image.png".
C15_Witness ==
  /\ app.fn = "generateFilename" /\ app.done
  /\ app.prompt = <<"!", "!">> /\ app.result = GENERATED_IMAGE_PNG

\* buildBatchPrompts has been applied
Compiled == app.fn = "buildBatchPrompts" /\ app.done
\* the list is absent or empty
NoTags(list) == ~list.some \/ list.v = <<>>
StartsWith(s, prefix) ==
  Len(s) >= Len(prefix) /\ SubSeq(s, 1, Len(prefix)) = prefix
EndsWith(s, suffix) ==
  Len(s) >= Len(suffix) /\ SubSeq(s, Len(s) - Len(suffix) + 1, Len(s)) = suffix

\* C16: for a non-empty style list S, no variations and outputCount n >= 1,
\* buildBatchPrompts returns min(|S|, n) prompts, the k-th being the base
\* prompt followed by the k-th style of S.
C16_StylesCappedByCount ==
  (Compiled /\ ~NoTags(app.request.styles) /\ NoTags(app.request.variations)
     /\ app.request.outputCount >= 1) =>
    LET S == app.request.styles.v
    IN /\ Len(app.result) = Min(Len(S), app.request.outputCount)
       /\ \A k \in 1..Len(app.result) :
            /\ StartsWith(app.result[k], app.request.prompt)
            /\ app.result[k] = app.request.prompt \o <<",", " ">> \o TagChars(S[k])
                                  \o <<" ", "s", "t", "y", "l", "e">>

\* C16 witness: two styles cut to one prompt by outputCount 1.
C16_Witness ==
  /\ Compiled /\ NoTags(app.request.variations) /\ app.request.outputCount = 1
  /\ app.request.styles = Some(<<"sketch", "watercolor">>) /\ Len(app.result) = 1

\* the ", suffix" texts the table appends for a tag (the raw tag if unknown)
SuffixesOf(tag) ==
  {ExpandVariation(<<>>, tag)[j] : j \in 1..Len(ExpandVariation(<<>>, tag))}

\* C17 (as stated): for every known tag of the variations list, each prompt
\* returned contains one of that tag's two suffixes (checked for counts that
\* are absent or positive).
C17_EveryPromptEveryTag ==
  (Compiled /\ app.request.variations.some /\ app.request.outputCount >= 0) =>
    \A j \in 1..Len(app.request.variations.v) :
      app.request.variations.v[j] \in KnownVariations =>
        \A k \in 1..Len(app.result) :
          \E suffix \in SuffixesOf(app.request.variations.v[j]) :
            includes(app.result[k], suffix)

\* C17 (amended): every known tag has exactly two suffixes, and with a
\* non-empty variations list and a count that is absent or positive each
\* prompt returned ends with a suffix of one tag of the list (the raw tag
\* text for an unknown tag).
C17_EveryPromptOneTag ==
  /\ \A tag \in KnownVariations : Cardinality(SuffixesOf(tag)) = 2
  /\ (Compiled /\ ~NoTags(app.request.variations) /\ app.request.outputCount >= 0) =>
       \A k \in 1..Len(app.result) :
         /\ StartsWith(app.result[k], app.request.prompt)
         /\ \E j \in 1..Len(app.request.variations.v) :
              \E suffix \in SuffixesOf(app.request.variations.v[j]) :
                EndsWith(app.result[k], suffix)

\* C17 witness: two known tags, four prompts, the last without a suffix of
\* the first tag.
C17_Witness ==
  /\ Compiled /\ app.request.variations = Some(<<"lighting", "season">>)
  /\ Len(app.result) = 4
  /\ \A suffix \in SuffixesOf("lighting") : ~includes(app.result[4], suffix)

\* C18: buildBatchPrompts never returns an empty list.
C18_NeverEmpty == Compiled => Len(app.result) >= 1

\* C18 witness: a negative count cut the only styled prompt away and the
\* base prompt was returned in its place.
C18_Witness ==
  /\ Compiled /\ app.request.outputCount < 0
  /\ app.request.styles = Some(<<"sketch">>) /\ NoTags(app.request.variations)
  /\ app.result = <<app.request.prompt>>

\* number of characters of a run-length encoded string of single characters
RECURSIVE TotalLength(_)
TotalLength(s) == IF s = <<>> THEN 0 ELSE Head(s).n + TotalLength(Tail(s))

\* the string is alphabet characters followed by at most two '='
OnlyBase64Alphabet(s) ==
  \E k \in 0..Len(s) :
    /\ \A i \in 1..k : s[i].a \in {"A", "z", "0", "9", "+", "/"}
    /\ \A i \in (k + 1)..Len(s) : s[i].a = "="
    /\ TotalLength(SubSeq(s, k + 1, Len(s))) <= 2

\* C19: isValidBase64ImageData accepts every string of 1000 characters or
\* more made of alphabet characters with at most two trailing '=', rejects
\* every string under 1000 characters, and rejects every string holding a
\* character outside the alphabet.
C19_Base64Validation ==
  (app.fn = "isValidBase64ImageData" /\ app.done) =>
    /\ (TotalLength(app.data) >= 1000 /\ OnlyBase64Alphabet(app.data)) => app.result
    /\ TotalLength(app.data) < 1000 => ~app.result
    /\ (\E i \in 1..Len(app.data) : app.data[i].a = "!") => ~app.result

\* C19 witness: 998 letters and two '=' are accepted.
C19_Witness ==
  /\ app.fn = "isValidBase64ImageData" /\ app.done
  /\ app.data = <<Run("A", 998), Run("=", 2)>> /\ app.result

\* parseImageFromResponse was applied to a response without a hit in output
\* whose data entries carry a url and nothing else
OnlyUrlEntries ==
  /\ app.fn = "parseImageFromResponse" /\ app.done /\ ~app.response.isNull
  /\ \A i \in 1..Len(app.response.output) :
       app.response.output[i].type # "image_generation_call"
       /\ \A j \in 1..Len(app.response.output[i].content) :
            app.response.output[i].content[j] = Part(None, None, Some(SHORT_DATA), None)
  /\ app.response.data # <<>>
  /\ \A k \in 1..Len(app.response.data) :
       /\ ~app.response.data[k].b64_json.some /\ ~app.response.data[k].base64.some
       /\ app.response.data[k].url.some /\ app.response.data[k].url.v # <<>>

\* the image data a url string holds inline: after the comma of a
\* data:image URL, else the string itself
InlineData(url) ==
  IF Head(url).a = "data:image" /\ (\E i \in 1..Len(url) : url[i].a = ",")
  THEN SubSeq(url, 1 + CHOOSE i \in 1..Len(url) :
                     url[i].a = "," /\ \A j \in 1..(i - 1) : url[j].a # ",", Len(url))
  ELSE url

C21_CrossProductOfTags ==
  (Compiled /\ app.request.outputCount >= 1) =>
    /\ (NoTags(app.request.styles) /\ NoTags(app.request.variations)) =>
         Len(app.result) = app.request.outputCount
    /\ (~NoTags(app.request.styles) /\ ~NoTags(app.request.variations)) =>
         Len(app.result) = Min(Len(app.request.styles.v) * Len(app.request.variations.v),
                               app.request.outputCount)

\* the number of prompts the variations list adds per base prompt: two for
\* a tag of the table, one for any other tag
RECURSIVE ExpansionCount(_)
ExpansionCount(variations) ==
  IF variations = <<>> THEN 0
  ELSE (IF Head(variations) \in KnownVariations THEN 2 ELSE 1)
       + ExpansionCount(Tail(variations))

\* C21 (amended): without styles and variations the list has outputCount
\* prompts (one when the count is absent); with both it has |styles| times
\* the expansion count of the variations, capped at outputCount when a
\* count is given.
C21_ProductOfExpansions ==
  (Compiled /\ app.request.outputCount >= 0) =>
    LET n == app.request.outputCount
    IN /\ (NoTags(app.request.styles) /\ NoTags(app.request.variations)) =>
            Len(app.result) = (IF n = 0 THEN 1 ELSE n)
       /\ (~NoTags(app.request.styles) /\ ~NoTags(app.request.variations)) =>
            LET product == Len(app.request.styles.v)
                             * ExpansionCount(app.request.variations.v)
            IN Len(app.result) = (IF n = 0 THEN product ELSE Min(product, n))

\* C21 witness: one style and one tag of the table give two prompts.
C21_Witness ==
  /\ Compiled /\ app.request.outputCount = MaxCount
  /\ app.request.styles = Some(<<"sketch">>)
  /\ app.request.variations = Some(<<"lighting">>)
  /\ Len(app.result) = 2

\* what the extractor looks at in one content entry, in the stated order
FieldsOf(part) == <<part.image_base64, part.result, part.data, part.text>>

RECURSIVE FieldsOfAll(_)
FieldsOfAll(content) ==
  IF content = <<>> THEN <<>> ELSE FieldsOf(Head(content)) \o FieldsOfAll(Tail(content))

\* the candidates of the output array in the stated order: items in array
\* order, an image_generation_call's result before its content entries
RECURSIVE OutputCandidates(_)
OutputCandidates(output) ==
  IF output = <<>> THEN <<>>
  ELSE (IF Head(output).type = "image_generation_call" THEN <<Head(output).result>> ELSE <<>>)
       \o FieldsOfAll(Head(output).content) \o OutputCandidates(Tail(output))

\* a candidate holds valid image data (for a data URL, after its first comma)
ValidCandidate(c) ==
  /\ c.some /\ c.v # <<>>
  /\ TotalLength(InlineData(c.v)) >= 1000 /\ OnlyBase64Alphabet(InlineData(c.v))

\* C22: parseImageFromResponse returns the first valid candidate of the
\* output array in the fixed order (items in array order, the direct result
\* of an image_generation_call before its content entries, image_base64,
\* result, data, text within an entry), a data URL giving the part after its
\* first comma; the legacy data array decides only when the output array
\* has no valid candidate.
C22_FirstValidCandidate ==
  (app.fn = "parseImageFromResponse" /\ app.done /\ ~app.response.isNull) =>
    LET cands == OutputCandidates(app.response.output)
        valid == {i \in 1..Len(cands) : ValidCandidate(cands[i])}
    IN IF valid = {} THEN app.result = ScanData(app.response.data)
       ELSE \E i \in valid :
              /\ \A j \in valid : i <= j
              /\ app.result = Some(InlineData(cands[i].v))

\* C22 witness: the first item gave nothing, the second item's direct result
\* was returned although its content and the legacy array held valid data.
C22_Witness ==
  /\ app.fn = "parseImageFromResponse" /\ app.done
  /\ Len(app.response.output) = 2
  /\ \A i \in 1..Len(OutputCandidates(<<app.response.output[1]>>)) :
       ~ValidCandidate(OutputCandidates(<<app.response.output[1]>>)[i])
  /\ app.response.output[2] =
       Item("image_generation_call", Some(Payload("+", 2, 0)),
            <<PartAt(2, 1, {"text"}), PartAt(2, 2, {"image_base64", "text"})>>)
  /\ app.response.data = <<Entry(None, Some(IMG), None)>>
  /\ app.result = Some(Payload("+", 2, 0))

\* postJson was applied to an answer with a status outside 200..299
NonOkAnswered ==
  /\ app.fn \in {"postJson", "handleApiError"} /\ app.called
  /\ ~app.outcome.rejected
  /\ app.outcome.response.status < 200 \/ app.outcome.response.status > 299

\* C23: for every answer with a status outside 200..299, whatever its body,
\* the provider client throws an OpenRouterApiError that carries the status
\* and whose message starts with the status prefix, and a 401 or 403 is
\* classified as an authentication failure.
C23_ProviderErrorWhateverBody ==
  NonOkAnswered =>
    /\ app.result.threw
    /\ app.result.error.cls = "OpenRouterApiError"
    /\ app.result.error.status = app.outcome.response.status
    /\ StartsWith(app.result.error.message,
                  <<"OpenRouter request failed with status ",
                    ToString(app.outcome.response.status)>>)
    /\ (app.done /\ app.outcome.response.status \in {401, 403}) =>
         MentionsAuthFailure(app.message)

\* the text holds "fetch failed", in any letter case
HoldsFetchFailed(text) ==
  \E i \in 1..(Len(text) - 2) :
    /\ text[i] \in {"fetch", "Fetch"} /\ text[i + 1] = " "
    /\ text[i + 2] \in {"failed", "Failed"}

\* C24: handleApiError maps every error to exactly one message: a provider
\* error with status 401 to the invalid-key authentication failure, 403 to
\* the forbidden authentication failure, 429 to the rate limit, 400 to the
\* rejection followed by the provider message, 500 and above to the internal
\* error, any other provider error to its raw message; another error whose
\* text holds "fetch failed" (in any letter case) to the network error, and
\* anything else to "An unexpected error occurred: " and the message.
C24_ClassifierTable ==
  (app.fn = "handleApiError" /\ app.done) =>
    LET e == app.error
        provider == e.cls = "OpenRouterApiError"
    IN /\ (provider /\ e.status = 401) =>
            app.message = MSG_401 /\ MentionsAuthFailure(app.message)
       /\ (provider /\ e.status = 403) =>
            app.message = MSG_403 /\ MentionsAuthFailure(app.message)
       /\ (provider /\ e.status = 429) => app.message = MSG_429
       /\ (provider /\ e.status = 400) => app.message = MSG_REJECTED \o e.message
       /\ (provider /\ e.status >= 500) => app.message = MSG_5XX
       /\ (provider /\ e.status \notin {400, 401, 403, 429} /\ e.status < 500) =>
            app.message = e.message
       /\ (~provider /\ HoldsFetchFailed(e.message)) => app.message = MSG_NETWORK
       /\ (~provider /\ ~HoldsFetchFailed(e.message)) =>
            app.message = MSG_UNEXPECTED \o e.message

\* C24 witness: a provider error with status 404 whose text is "fetch
\* failed" was mapped to its raw message, not to the network error.
C24_Witness ==
  /\ app.fn = "handleApiError" /\ app.done
  /\ app.error = OpenRouterApiError(<<"fetch", " ", "failed">>, 404, <<>>)
  /\ app.message = <<"fetch", " ", "failed">>

\* C25: a story of M steps whose loop is entered attempts steps 1..M in
\* order unless an authentication failure (HTTP 401 or 403) aborts it, and
\* with N >= 1 generated files it reports the complete M-step sequence if
\* and only if N = M, otherwise N out of M steps with M - N failed.
C25_StoryStepsAndMessage ==
  (Returned /\ inv.op = "story" /\ inv.sent # <<>>
     /\ inv.abortedWith \notin {Some(MSG_401), Some(MSG_403)}) =>
    LET M == inv.n
        N == Len(inv.generatedFiles)
    IN /\ inv.sent = [k \in 1..M |-> k - 1]
       /\ N >= 1 =>
            /\ inv.result.success
            /\ inv.result.message =
                 (IF N = M
                  THEN <<"Successfully generated complete ", ToString(M), "-step ",
                         inv.storyType, " sequence">>
                  ELSE <<"Generated ", ToString(N), " out of ", ToString(M), " requested ",
                         inv.storyType, " steps (", ToString(M - N), " steps failed)">>)

\* the output files invocation p has named so far: written or being written
NamedBy(p) ==
  {calls[p].generatedFiles[k] : k \in 1..Len(calls[p].generatedFiles)}
  \cup (IF calls[p].writing.some THEN {calls[p].writing.v} ELSE {})

\* C26: two invocations in progress at the same time never obtain the same
\* output file name: neither overwrites a file of the other and their
\* results list no common path.
C26_NoSharedFileName ==
  \A p, q \in DOMAIN calls : p # q => NamedBy(p) \cap NamedBy(q) = {}

\* parseImageFromResponse was applied to a response whose output array has
\* no valid candidate
NoOutputHit ==
  /\ app.fn = "parseImageFromResponse" /\ app.done /\ ~app.response.isNull
  /\ \A i \in 1..Len(OutputCandidates(app.response.output)) :
       ~ValidCandidate(OutputCandidates(app.response.output)[i])

\* the b64_json and base64 values of the legacy array, in array order
RECURSIVE InlineValues(_)
InlineValues(data) ==
  IF data = <<>> THEN <<>>
  ELSE <<Head(data).b64_json, Head(data).base64>> \o InlineValues(Tail(data))

\* C27: when the output array has no valid candidate and some entry of the
\* legacy data array carries a b64_json or base64 value that passes the
\* validation, parseImageFromResponse returns the first such value in
\* array order.
C27_LegacyInlineValueReturned ==
  NoOutputHit =>
    LET values == InlineValues(app.response.data)
        valid == {i \in 1..Len(values) : ValidCandidate(values[i])}
    IN valid # {} =>
         \E i \in valid :
           /\ \A j \in valid : i <= j
           /\ app.result = Some(InlineData(values[i].v))

\* an extractor like parseImageFromResponse but without the content scan
\* nested in the image_generation_call branch
RECURSIVE ScanOutputUnnested(_)
ScanOutputUnnested(output) ==
  IF output = <<>> THEN None
  ELSE LET item == Head(output)
           direct == IF item.type = "image_generation_call" THEN tryDecode(item.result)
                     ELSE None
           d == OrDecode(direct, ScanContent(item.content))
       IN IF d.some THEN d ELSE ScanOutputUnnested(Tail(output))

\* C28: the content scan nested in the image_generation_call branch is
\* redundant: the extractor without it returns the same value as
\* parseImageFromResponse for every response.
C28_NestedScanRedundant ==
  (app.fn = "parseImageFromResponse" /\ app.done) =>
    app.result = (IF app.response.isNull THEN None
                  ELSE OrDecode(ScanOutputUnnested(app.response.output),
                                ScanData(app.response.data)))

\* C28 witness: an image_generation_call item without a valid result whose
\* content holds valid data, found by the nested scan.
C28_Witness ==
  /\ app.fn = "parseImageFromResponse" /\ app.done
  /\ Len(app.response.output) >= 1
  /\ app.response.output[1].type = "image_generation_call"
  /\ app.response.output[1].result = Some(SHORT_DATA)
  /\ app.response.output[1].content = <<PartAt(1, 1, {}), PartAt(1, 2, {"text"})>>
  /\ app.result = Some(Payload("9", 1, 2))

\* an operation was started and is over
Ended == inv.op # "none" /\ inv.pc = "idle"

\* C29 (as stated): generate, story and edit never reject, and every failure
\* of a collaborator (directory creation, provider call, file read, file
\* write, preview) ends in a result with success=false and an error text.
C29_EveryFailureFails ==
  Ended =>
    /\ inv.result.returned
    /\ (inv.firstRaised.some \/ inv.writeFailed \/ inv.launchFailed) =>
         /\ ~inv.result.success
         /\ inv.result.error.some /\ inv.result.error.v # <<>>

\* C29 (amended): the three operations never reject; a result is either
\* success=true with at least one file and no error, or success=false with
\* a non-empty error text; an invocation that wrote no file returns
\* success=false, and a batch that wrote a file and was not aborted returns
\* success=true whatever failed besides.
C29_NeverRejects ==
  Ended =>
    /\ inv.result.returned
    /\ inv.result.success =>
         /\ inv.result.generatedFiles.some /\ inv.result.generatedFiles.v # <<>>
         /\ ~inv.result.error.some
    /\ ~inv.result.success =>
         /\ inv.result.error.some /\ inv.result.error.v # <<>>
         /\ ~inv.result.generatedFiles.some
    /\ inv.written = 0 => ~inv.result.success
    /\ (Batch /\ inv.written >= 1 /\ ~inv.abortedWith.some) => inv.result.success

\* C29 witness: the write of an edit failed and the outer catch returned
\* the failure.
C29_Witness ==
  /\ Ended /\ inv.op = "edit" /\ inv.writeFailed
  /\ inv.result = OuterCatch("edit", inv.request.mode, FS_WRITE_ERROR)

\* C30: when every provider call, file operation and preview launch
\* settles, every generate, story and edit invocation that is suspended
\* eventually returns a result, and it never makes more provider calls than
\* it has prompts or steps (one for an edit).
C30_EventuallyReturns ==
  /\ [](Len(inv.sent) <= inv.n /\ (inv.op = "edit" => Len(inv.sent) <= 1))
  /\ (inv.pc # "idle") ~> (inv.pc = "idle" /\ inv.result.returned)

\* C30 witness: a story returned after one provider call for each of its
\* four steps, one of which failed and one of which was written.
C30_Witness ==
  /\ Returned /\ inv.op = "story" /\ inv.n = DEFAULT_STEPS
  /\ Len(inv.sent) = DEFAULT_STEPS /\ inv.written >= 1 /\ inv.firstRaised.some
====
